---- MODULE Spec2Model ----
(***************************************************************************)
(* Decentralized anomaly-detection simulation: the SQLite ledger           *)
(* (DatabaseLedger, three implementations) and the simulation engine       *)
(* (Simulation, three implementations) with its agents.                    *)
(*                                                                         *)
(* The repository holds several implementations of each component.  The    *)
(* variable impl names the ledger implementation of a behaviour:           *)
(*   "root"    src/database.py                                             *)
(*   "core"    src/decentralized-ai-simulation/src/core/database.py        *)
(*   "manager" src/decentralized-ai-simulation/src/core/database/          *)
(*             ledger_manager.py                                           *)
(* Floats are modelled as integers: confidence in tenths (ConfOne = 1.0),  *)
(* timestamps as small integers.                                           *)
(***************************************************************************)
EXTENDS Integers, Sequences, FiniteSets, TLC

VARIABLES
  impl,             \* ledger implementation under test
  ledger,           \* rows of the SQLite table "ledger", in rowid order
  sqlite_sequence,  \* AUTOINCREMENT high-water mark of the table
  schema,           \* whether the table "ledger" exists in the database file
  lock,             \* DatabaseLedger.lock per ledger instance: 0 or the holding thread
  cached_ledger,    \* DatabaseLedger._cached_ledger per instance
  db_initialized,   \* DatabaseLedger._db_initialized per instance (manager: lazy schema)
  inst,             \* the ledger instance each client thread calls
  pc,               \* position of each client thread inside its current ledger call
  call,             \* the ledger call each thread is executing: operation, argument
  last,             \* the ledger call that returned in the step just taken, with its outcome
  appendLog,        \* history: the successful appends, in commit order
  version,          \* history: number of committed writes to the table
  instVer,          \* history: per instance, version after its last returned write
  cleanups,         \* history: number of cleanup_old_entries calls that committed
  sim,              \* simulation implementation under test
  backend,          \* execution backend the Simulation object is configured with
  stop_on_error,    \* configuration value simulation.stop_on_error
  step_count,       \* Simulation.step_count
  run,              \* the client's Simulation.run(steps) call
  phase,            \* position of Simulation.step(): idle, act, poll or resolve
  mode,             \* how the tasks of the current phase are executed
  acted,            \* per agent, its act-phase step() task: todo, running or done
  polled,           \* per agent, its poll-phase poll_and_validate(): "todo" or "done"
  last_seen_id,     \* AnomalyAgent.last_seen_id per agent
  all_validations,  \* the vote map of the current step: signature id -> list of votes
  updCalls,         \* per agent and signature, update calls made by the last resolve_consensus
  confirmed,        \* history: per agent, the signatures consensus has updated it with
  verdict,          \* history: per signature, the agents whose last validate_signature was True
  poll_raised,      \* whether the poll_and_validate() call of the step just taken raised
  ran_before,       \* the agents whose task of the current phase had run when the phase
                    \* fell back to the sequential loop, and which the loop has yet to reach
  repeated,         \* history: a task of the current step() has been invoked a second time
  db_locked,        \* whether the database is locked: an INSERT raises "database is locked"
  simulation,       \* SimulationBridge.simulation is not None
  running,          \* SimulationBridge.running
  stop_event,       \* SimulationBridge.stop_event is set
  simulation_thread,\* SimulationBridge.simulation_thread: 0 or the latest loop thread
  loop,             \* per loop thread: position in _run_simulation_loop, steps left, and
                    \* (history) whether stop_simulation has been called during its life
  handler,          \* position of the request handler on the server's event loop
  response,         \* the HTTP response sent in the step just taken
  websocket_connections, \* SimulationBridge.websocket_connections
  client,           \* per WebSocket: new, open, gone (the peer has left) or closed
  bcast,            \* _broadcast_simulation_update in the loop thread: its position, its
                    \* set iterator and disconnected_clients
  max_size,         \* BoundedCache.max_size
  cache,            \* BoundedCache.cache: key -> value
  access_order,     \* BoundedCache.access_order
  uses,             \* history: the keys used (put, or found by get), oldest first
  cache_call,       \* the BoundedCache call made in the step just taken
  validation_cache, \* AnomalyAgent._validation_cache of one agent: its keys, oldest first
  validated,        \* history: number of distinct signatures the agent has validated
  fs,               \* the file system: path -> content of the file, or Absent
  fcall,            \* the FileManager call made in the step just taken, with its outcome
  file_calls,       \* history: number of FileManager calls made
  tables,           \* per database file, the rows of its table "ledger": each row is
                    \* written as the db_file of the ledger it was appended through
  schemas,          \* the database files in which the table "ledger" exists
  thread_connection,\* per thread, the file its pooled connection is open on, or "none"
  ledgers,          \* the db_file values of the DatabaseLedger objects constructed
  initialized,      \* the ledgers whose _db_initialized is set (ledger_manager.py)
  appended,         \* history: per db_file, the appends made through its ledgers
  store_call,       \* the ledger call made in the step just taken, with its outcome
  agent_positions,  \* PositionMapper.agent_positions: node id -> Vector3D, in tenths
  position_updates, \* history: number of update_positions_from_simulation calls made
  poll_stage,       \* position of the polling agent inside poll_and_validate
  new_entries,      \* the local new_entries of the polling agent's poll_and_validate
  poll_calls,       \* history: number of poll_and_validate calls the agent has made
  query_log,        \* history: number of appends committed when the last query read
  validated_ids,    \* history: ids of the entries the agent has called validate_signature on
  between_ids,      \* history: ids appended after a query of the agent read the table and
                    \* before the read_ledger call of the same poll began
  data,             \* BoundedList._data: the deque, oldest item first
  list_max_size,    \* BoundedList.max_size, also the maxlen of the deque
  total_appended,   \* BoundedList._total_appended
  list_lock,        \* BoundedList._lock (threading.Lock) is held
  frames,           \* the calling thread's stack of BoundedList methods, innermost last
  waiting,          \* the innermost method is at its "with self._lock:" statement
  stats,            \* the entries get_stats() has evaluated for the dictionary it returns
  added             \* history: number of items passed to append() and extend()

ledgerVars ==
  <<impl, ledger, sqlite_sequence, schema, lock, cached_ledger,
    db_initialized, inst, pc, call, last, appendLog, version, instVer, cleanups>>

simVars ==
  <<sim, backend, stop_on_error, step_count, run, phase, mode, acted, polled,
    last_seen_id, all_validations, updCalls, confirmed, verdict, poll_raised,
    ran_before, repeated>>

bridgeVars ==
  <<simulation, running, stop_event, simulation_thread, loop, handler, response>>

socketVars == <<websocket_connections, client, bcast>>

cacheVars == <<max_size, cache, access_order, uses, cache_call>>

agentVars == <<validation_cache, validated>>

fileVars == <<fs, fcall, file_calls>>

\* the variables of the utilities
storeVars ==
  <<tables, schemas, thread_connection, ledgers, initialized, appended, store_call>>

positionVars == <<agent_positions, position_updates>>

pollVars ==
  <<poll_stage, new_entries, poll_calls, query_log, validated_ids, between_ids>>

boundedVars ==
  <<data, list_max_size, total_appended, list_lock, frames, waiting, stats, added>>

utilVars == <<fileVars, storeVars, positionVars, pollVars, boundedVars>>

\* the variables of the other components
otherVars == <<db_locked, bridgeVars, socketVars, cacheVars, agentVars, utilVars>>

vars == <<ledgerVars, simVars, otherVars>>

(***************************************************************************)
(* Bounds of the model and the input sets.                                 *)
(***************************************************************************)
MaxAppends == 2
MaxCleanups == 1
MaxSteps == 2
\* depth at which the interpreter ends a recursion with RecursionError
RecursionLimit == 3
MaxLoops == 2
MaxCacheSize == 2
MaxCacheOps == 5
MaxValidations == 160

Impls == {"root", "core", "manager"}
Threads == {1, 2}
Instances == {1, 2}
SimImpls == {"root", "core", "engine"}
Backends == {"sequential", "threads", "ray"}
Agents == {1, 2, 3}
SigIds == 1 .. MaxAppends

ConfOne == 10
TimestampInputs == {1, 2}
FeatureInputs == {<<500>>}

required_keys == {"timestamp", "node_id", "features", "confidence"}

\* the valid entries, one with a confidence of 1.5, one that lacks keys
EntryInputs ==
  [timestamp : TimestampInputs, node_id : {"Node_1"},
   features : FeatureInputs, confidence : {5}]
    \cup {[timestamp |-> 1, node_id |-> "Node_1", features |-> <<500>>, confidence |-> 15],
          [timestamp |-> 1, node_id |-> "Node_1"]}

LastSeenInputs == (0 - 1) .. MaxAppends
MaxAgeInputs == {0, 1, 2}
NowInputs == {3}

(***************************************************************************)
(* Sequence helpers.                                                       *)
(***************************************************************************)
Range(s) == {s[i] : i \in DOMAIN s}

SetMax(S) == IF S = {} THEN 0 ELSE CHOOSE m \in S : \A x \in S : x <= m

(***************************************************************************)
(* json.dumps / json.loads of the features column.                         *)
(***************************************************************************)
json_dumps(features) == [json |-> features]
json_loads(text) == text.json

(***************************************************************************)
(* SQL statements of the ledger table.                                     *)
(***************************************************************************)
\* id INTEGER PRIMARY KEY AUTOINCREMENT: a new row takes the high-water mark plus one
AutoincrementId(seq) == seq + 1

NewRow(seq, entry) ==
  [id |-> AutoincrementId(seq), timestamp |-> entry.timestamp, node_id |-> entry.node_id,
   features |-> json_dumps(entry.features), confidence |-> entry.confidence]

\* INSERT INTO ledger (timestamp, node_id, features, confidence) VALUES (?, ?, ?, ?)
RootInsert(rows, seq, entry) == Append(rows, NewRow(seq, entry))

ManagerInsert(rows, seq, entry) == Append(rows, NewRow(seq, entry))

\* INSERT OR REPLACE under UNIQUE(timestamp, node_id): the conflicting row is deleted
CoreInsert(rows, seq, entry) ==
  LET noConflict(r) ==
        ~(r.timestamp = entry.timestamp /\ r.node_id = entry.node_id)
  IN  Append(SelectSeq(rows, noConflict), NewRow(seq, entry))

\* the dict built from one fetched row
RowToEntry(r) ==
  [id |-> r.id, timestamp |-> r.timestamp, node_id |-> r.node_id,
   features |-> json_loads(r.features), confidence |-> r.confidence]

\* SELECT ... FROM ledger ORDER BY id
SelectAll(rows) == [k \in DOMAIN rows |-> RowToEntry(rows[k])]

\* SELECT ... FROM ledger WHERE id > ? ORDER BY id
SelectNewer(rows, seen_id) ==
  LET newer(r) == r.id > seen_id
      hit == SelectSeq(rows, newer)
  IN  [k \in DOMAIN hit |-> RowToEntry(hit[k])]

\* SELECT ... FROM ledger WHERE id = ?  (fetchone: a sequence of at most one entry)
SelectById(rows, entry_id) ==
  LET same(r) == r.id = entry_id
      hit == SelectSeq(rows, same)
  IN  [k \in DOMAIN hit |-> RowToEntry(hit[k])]

\* DELETE FROM ledger WHERE timestamp < ?
DeleteOlder(rows, cutoff) ==
  LET kept(r) == ~(r.timestamp < cutoff)
  IN  SelectSeq(rows, kept)

(***************************************************************************)
(* Validation of append_entry's argument.                                  *)
(***************************************************************************)
HasKeys(entry) == required_keys \subseteq DOMAIN entry

RootValidate(entry) == HasKeys(entry)

CoreValidate(entry) ==
  /\ HasKeys(entry)
  /\ entry.node_id # ""
  /\ 0 <= entry.confidence /\ entry.confidence <= ConfOne

ManagerValidate(entry) ==
  /\ HasKeys(entry)
  /\ entry.node_id # ""
  /\ 0 <= entry.confidence /\ entry.confidence <= ConfOne

(***************************************************************************)
(* The read cache of one ledger instance.  has: the attribute / cache key   *)
(* exists; isNone: it holds None; fresh: _last_cache_update is not 0;       *)
(* ver (history): the table version the cached list was read at.           *)
(***************************************************************************)
NoCache == [has |-> FALSE, isNone |-> FALSE, val |-> <<>>, fresh |-> FALSE, ver |-> 0]

StoredCache(entries, v) ==
  [has |-> TRUE, isNone |-> FALSE, val |-> entries, fresh |-> TRUE, ver |-> v]

\* delattr(self, '_cached_ledger')
RootInvalidateCache(c) == NoCache

\* self._last_cache_update = 0; self._cached_ledger = None (when the attribute exists)
CoreInvalidateCache(c) ==
  IF c.has
    THEN [has |-> TRUE, isNone |-> TRUE, val |-> <<>>, fresh |-> FALSE, ver |-> 0]
    ELSE NoCache

\* self._cached_ledger.clear()
ManagerInvalidateCache(c) == NoCache

\* hasattr(self, '_cached_ledger')
RootCacheHit(c) == c.has

\* hasattr(self, '_cached_ledger') and (time.time() - self._last_cache_update) < ttl
CoreCacheValid(c, withinTtl) == c.has /\ c.fresh /\ withinTtl

\* cached_result = self.cached_ledger.get("ledger_all"); if cached_result:
ManagerCacheHit(c) == c.has /\ c.val # <<>>

(***************************************************************************)
(* Outcomes of a ledger call.                                              *)
(***************************************************************************)
Raised == [kind |-> "raised", id |-> 0, rows |-> <<>>, ver |-> 0]
ReturnedNone == [kind |-> "None", id |-> 0, rows |-> <<>>, ver |-> 0]
ReturnedId(n, v) == [kind |-> "id", id |-> n, rows |-> <<>>, ver |-> v]
ReturnedRows(r, v) == [kind |-> "rows", id |-> 0, rows |-> r, ver |-> v]
ReturnedCount(n, v) == [kind |-> "count", id |-> n, rows |-> <<>>, ver |-> v]

NoArg == [none |-> 0]
NoCall == [op |-> "none", arg |-> NoArg, need |-> 0, log |-> 0, depth |-> 0]
NoLast ==
  [op |-> "none", arg |-> NoArg, need |-> 0, log |-> 0, io |-> FALSE,
   kind |-> "none", id |-> 0, rows |-> <<>>, ver |-> 0, thread |-> 0]

AppendPcs == {"append_body", "append_lock"}
CleanupPcs == {"cleanup_body"}
\* the call a thread begins now; a read_ledger call remembers the history it must show;
\* depth: the nested append_entry calls the call has made to itself
NewCall(t, op, a) ==
  [op |-> op, arg |-> a,
   need |-> IF op = "read" THEN instVer[inst[t]] ELSE 0,
   log |-> IF op = "read" THEN Len(appendLog) ELSE 0,
   depth |-> 0]

\* a thread enters a ledger method and stops at position p
Enter(t, op, a, p) ==
  /\ pc[t] = "idle"
  /\ pc' = [pc EXCEPT ![t] = p]
  /\ call' = [call EXCEPT ![t] = NewCall(t, op, a)]
  /\ last' = NoLast
  /\ UNCHANGED <<simVars, otherVars>>

\* a thread leaves the ledger method of call c with outcome r; didIo: the call has
\* touched the database
Return(t, c, r, didIo) ==
  /\ pc' = [pc EXCEPT ![t] = "idle"]
  /\ call' = [call EXCEPT ![t] = NoCall]
  /\ last' = [op |-> c.op, arg |-> c.arg, need |-> c.need, log |-> c.log,
              io |-> didIo, kind |-> r.kind, id |-> r.id, rows |-> r.rows, ver |-> r.ver,
              thread |-> t]
  /\ UNCHANGED <<simVars, otherVars>>

AppendsInFlight == Cardinality({u \in Threads : pc[u] \in AppendPcs})
CleanupsInFlight == Cardinality({u \in Threads : pc[u] \in CleanupPcs})

\* with self.lock: (threading.Lock, not reentrant); the thread proceeds once it holds it
Acquire(t) ==
  /\ lock[inst[t]] = 0
  /\ lock' = [lock EXCEPT ![inst[t]] = t]

\* a committed write of the calling thread: the table, the invalidated caches, the
\* released lock and the history
CommitWrite(t, rows, seq, newCache) ==
  LET i == inst[t] IN
  /\ ledger' = rows
  /\ sqlite_sequence' = seq
  /\ cached_ledger' = [cached_ledger EXCEPT ![i] = newCache]
  /\ lock' = [lock EXCEPT ![i] = 0]
  /\ version' = version + 1
  /\ instVer' = [instVer EXCEPT ![i] = version + 1]

(***************************************************************************)
(* append_entry                                                            *)
(***************************************************************************)
RootAppendStart(t, entry) ==
  /\ impl = "root"
  /\ IF RootValidate(entry)
       THEN /\ Len(appendLog) + AppendsInFlight < MaxAppends
            /\ Enter(t, "append", entry, "append_body") /\ Acquire(t)
       ELSE /\ pc[t] = "idle"
            /\ Return(t, NewCall(t, "append", entry), Raised, FALSE) /\ UNCHANGED lock
  /\ UNCHANGED <<impl, schema, ledger, sqlite_sequence, cached_ledger,
                 db_initialized, inst, appendLog, version, instVer, cleanups>>

CoreAppendStart(t, entry) ==
  /\ impl = "core"
  /\ IF CoreValidate(entry)
       THEN /\ Len(appendLog) + AppendsInFlight < MaxAppends
            /\ Enter(t, "append", entry, "append_body") /\ Acquire(t)
       ELSE /\ pc[t] = "idle"
            /\ Return(t, NewCall(t, "append", entry), Raised, FALSE) /\ UNCHANGED lock
  /\ UNCHANGED <<impl, schema, ledger, sqlite_sequence, cached_ledger,
                 db_initialized, inst, appendLog, version, instVer, cleanups>>

\* self._ensure_db_initialized(): on the instance's first call _init_db runs under the
\* lock (CREATE TABLE IF NOT EXISTS, commit)
EnsureDbInitialized(t) ==
  /\ ~db_initialized[inst[t]] => lock[inst[t]] = 0
  /\ db_initialized' = [db_initialized EXCEPT ![inst[t]] = TRUE]
  /\ schema' = TRUE

\* _ensure_db_initialized() comes before the argument is validated
ManagerAppendStart(t, entry) ==
  /\ impl = "manager"
  /\ EnsureDbInitialized(t)
  /\ IF ManagerValidate(entry)
       THEN /\ Len(appendLog) + AppendsInFlight < MaxAppends
            /\ Enter(t, "append", entry, "append_body") /\ Acquire(t)
       ELSE /\ pc[t] = "idle"
            /\ Return(t, NewCall(t, "append", entry), Raised,
                      ~db_initialized[inst[t]]) /\ UNCHANGED lock
  /\ UNCHANGED <<impl, ledger, sqlite_sequence, cached_ledger,
                 inst, appendLog, version, instVer, cleanups>>

AppendCommit(t, rows, newCache) ==
  LET newId == AutoincrementId(sqlite_sequence) IN
  /\ CommitWrite(t, rows, newId, newCache)
  /\ appendLog' = Append(appendLog, [id |-> newId, entry |-> call[t].arg])
  /\ Return(t, call[t], ReturnedId(newId, version + 1), TRUE)
  /\ UNCHANGED <<impl, schema, db_initialized, inst, cleanups>>

RootAppendBody(t) ==
  /\ impl = "root"
  /\ pc[t] = "append_body"
  /\ AppendCommit(t, RootInsert(ledger, sqlite_sequence, call[t].arg),
                  RootInvalidateCache(cached_ledger[inst[t]]))

CoreAppendBody(t) ==
  /\ impl = "core"
  /\ pc[t] = "append_body"
  /\ AppendCommit(t, CoreInsert(ledger, sqlite_sequence, call[t].arg),
                  CoreInvalidateCache(cached_ledger[inst[t]]))

ManagerAppendBody(t) ==
  /\ impl = "manager"
  /\ pc[t] = "append_body"
  /\ AppendCommit(t, ManagerInsert(ledger, sqlite_sequence, call[t].arg),
                  ManagerInvalidateCache(cached_ledger[inst[t]]))

\* the INSERT raises sqlite3.OperationalError("database is locked"): the except clause
\* sleeps 0.1 s and calls self.append_entry(entry) again.  src/database.py and
\* core/database.py do so inside "with self.lock:", still holding the lock the nested
\* call waits for; ledger_manager.py has left the with block.  The nesting ends with
\* RecursionError when the interpreter's limit is reached.
AppendLocked(t) ==
  /\ pc[t] = "append_body"
  /\ db_locked
  /\ IF impl = "manager" /\ call[t].depth + 1 >= RecursionLimit
       THEN Return(t, call[t], Raised, TRUE)
       ELSE /\ pc' = [pc EXCEPT ![t] = "append_lock"]
            /\ call' = [call EXCEPT ![t].depth = @ + 1]
            /\ last' = NoLast
            /\ UNCHANGED <<simVars, otherVars>>
  /\ lock' = IF impl = "manager" THEN [lock EXCEPT ![inst[t]] = 0] ELSE lock
  /\ UNCHANGED <<impl, ledger, sqlite_sequence, schema, cached_ledger, db_initialized,
                 inst, appendLog, version, instVer, cleanups>>

\* the nested append_entry call: with self.lock:
AppendRelock(t) ==
  /\ pc[t] = "append_lock"
  /\ Acquire(t)
  /\ pc' = [pc EXCEPT ![t] = "append_body"]
  /\ last' = NoLast
  /\ UNCHANGED <<impl, ledger, sqlite_sequence, schema, cached_ledger, db_initialized,
                 inst, call, appendLog, version, instVer, cleanups, simVars, otherVars>>

\* the INSERT of an append_entry call goes through
AppendInsert(t) ==
  /\ ~db_locked
  /\ RootAppendBody(t) \/ CoreAppendBody(t) \/ ManagerAppendBody(t)

\* another connection takes the write lock of the database file and keeps it
LockStorage ==
  /\ ~db_locked
  /\ db_locked' = TRUE
  /\ UNCHANGED <<ledgerVars, simVars, bridgeVars, socketVars, cacheVars, agentVars, utilVars>>

\* the other connection commits
UnlockStorage ==
  /\ db_locked
  /\ db_locked' = FALSE
  /\ UNCHANGED <<ledgerVars, simVars, bridgeVars, socketVars, cacheVars, agentVars, utilVars>>

(***************************************************************************)
(* read_ledger                                                             *)
(***************************************************************************)
\* the fresh read under the lock: SELECT, cache the list, return it
ReadCommit(t) ==
  LET i == inst[t]
      entries == SelectAll(ledger)
  IN  /\ pc[t] = "read_body"
      /\ cached_ledger' = [cached_ledger EXCEPT ![i] = StoredCache(entries, version)]
      /\ lock' = [lock EXCEPT ![i] = 0]
      /\ Return(t, call[t], ReturnedRows(entries, version), TRUE)
      /\ UNCHANGED <<impl, schema, ledger, sqlite_sequence, db_initialized, inst,
                     appendLog, version, instVer, cleanups>>

\* if hasattr(self, '_cached_ledger'): ... else: with self.lock:
RootReadStart(t) ==
  /\ impl = "root"
  /\ IF RootCacheHit(cached_ledger[inst[t]])
       THEN Enter(t, "read", NoArg, "read_cached") /\ UNCHANGED lock
       ELSE Enter(t, "read", NoArg, "read_body") /\ Acquire(t)
  /\ UNCHANGED <<impl, schema, ledger, sqlite_sequence, cached_ledger,
                 db_initialized, inst, appendLog, version, instVer, cleanups>>

\* return self._cached_ledger: AttributeError when a writer deleted it meanwhile
RootReadCached(t) ==
  LET c == cached_ledger[inst[t]] IN
  /\ impl = "root"
  /\ pc[t] = "read_cached"
  /\ IF c.has
       THEN Return(t, call[t], ReturnedRows(c.val, c.ver), FALSE)
       ELSE Return(t, call[t], Raised, FALSE)
  /\ UNCHANGED <<impl, schema, ledger, sqlite_sequence, lock, cached_ledger,
                 db_initialized, inst, appendLog, version, instVer, cleanups>>

RootReadBody(t) == impl = "root" /\ ReadCommit(t)

\* if self._is_cache_valid(): ... ; withinTtl: less than _cache_ttl seconds have passed
CoreReadStart(t, withinTtl) ==
  /\ impl = "core"
  /\ IF CoreCacheValid(cached_ledger[inst[t]], withinTtl)
       THEN Enter(t, "read", NoArg, "read_cached") /\ UNCHANGED lock
       ELSE Enter(t, "read", NoArg, "read_body") /\ Acquire(t)
  /\ UNCHANGED <<impl, schema, ledger, sqlite_sequence, cached_ledger,
                 db_initialized, inst, appendLog, version, instVer, cleanups>>

\* return self._cached_ledger: None when a writer invalidated it meanwhile
CoreReadCached(t) ==
  LET c == cached_ledger[inst[t]] IN
  /\ impl = "core"
  /\ pc[t] = "read_cached"
  /\ IF c.isNone
       THEN Return(t, call[t], ReturnedNone, FALSE)
       ELSE Return(t, call[t], ReturnedRows(c.val, c.ver), FALSE)
  /\ UNCHANGED <<impl, schema, ledger, sqlite_sequence, lock, cached_ledger,
                 db_initialized, inst, appendLog, version, instVer, cleanups>>

CoreReadBody(t) == impl = "core" /\ ReadCommit(t)

\* self._ensure_db_initialized(); BoundedCache.get is atomic under the cache's own lock
ManagerReadStart(t) ==
  LET c == cached_ledger[inst[t]] IN
  /\ impl = "manager"
  /\ EnsureDbInitialized(t)
  /\ IF ManagerCacheHit(c)
       THEN /\ pc[t] = "idle"
            /\ Return(t, NewCall(t, "read", NoArg), ReturnedRows(c.val, c.ver),
                      ~db_initialized[inst[t]]) /\ UNCHANGED lock
       ELSE Enter(t, "read", NoArg, "read_body") /\ Acquire(t)
  /\ UNCHANGED <<impl, ledger, sqlite_sequence, cached_ledger,
                 inst, appendLog, version, instVer, cleanups>>

ManagerReadBody(t) == impl = "manager" /\ ReadCommit(t)

(***************************************************************************)
(* get_new_entries                                                         *)
(***************************************************************************)
NewCommit(t) ==
  /\ pc[t] = "new_body"
  /\ lock' = [lock EXCEPT ![inst[t]] = 0]
  /\ IF schema
       THEN Return(t, call[t],
                   ReturnedRows(SelectNewer(ledger, call[t].arg.last_seen_id), version), TRUE)
       ELSE Return(t, call[t], Raised, TRUE)  \* sqlite3.OperationalError: no such table
  /\ UNCHANGED <<impl, schema, ledger, sqlite_sequence, cached_ledger, db_initialized,
                 inst, appendLog, version, instVer, cleanups>>

\* no validation of last_seen_id
RootNewStart(t, seen_id) ==
  /\ impl = "root"
  /\ Enter(t, "new", [last_seen_id |-> seen_id], "new_body") /\ Acquire(t)
  /\ UNCHANGED <<impl, schema, ledger, sqlite_sequence, cached_ledger,
                 db_initialized, inst, appendLog, version, instVer, cleanups>>

\* if not isinstance(last_seen_id, int) or last_seen_id < 0: raise ValueError
CoreNewStart(t, seen_id) ==
  /\ impl = "core"
  /\ IF seen_id < 0
       THEN /\ pc[t] = "idle"
            /\ Return(t, NewCall(t, "new", [last_seen_id |-> seen_id]), Raised, FALSE)
            /\ UNCHANGED lock
       ELSE Enter(t, "new", [last_seen_id |-> seen_id], "new_body") /\ Acquire(t)
  /\ UNCHANGED <<impl, schema, ledger, sqlite_sequence, cached_ledger,
                 db_initialized, inst, appendLog, version, instVer, cleanups>>

\* the same validation; the schema is not ensured here
ManagerNewStart(t, seen_id) ==
  /\ impl = "manager"
  /\ IF seen_id < 0
       THEN /\ pc[t] = "idle"
            /\ Return(t, NewCall(t, "new", [last_seen_id |-> seen_id]), Raised, FALSE)
            /\ UNCHANGED lock
       ELSE Enter(t, "new", [last_seen_id |-> seen_id], "new_body") /\ Acquire(t)
  /\ UNCHANGED <<impl, schema, ledger, sqlite_sequence, cached_ledger,
                 db_initialized, inst, appendLog, version, instVer, cleanups>>

RootNewBody(t) == impl = "root" /\ NewCommit(t)
CoreNewBody(t) == impl = "core" /\ NewCommit(t)
ManagerNewBody(t) == impl = "manager" /\ NewCommit(t)

(***************************************************************************)
(* cleanup_old_entries (core implementation only)                          *)
(***************************************************************************)
\* if not isinstance(max_age_seconds, int) or max_age_seconds <= 0: raise ValueError
CoreCleanupStart(t, max_age_seconds, now) ==
  LET a == [max_age_seconds |-> max_age_seconds, now |-> now] IN
  /\ impl = "core"
  /\ IF max_age_seconds <= 0
       THEN /\ pc[t] = "idle"
            /\ Return(t, NewCall(t, "cleanup", a), Raised, FALSE) /\ UNCHANGED lock
       ELSE /\ cleanups + CleanupsInFlight < MaxCleanups
            /\ Enter(t, "cleanup", a, "cleanup_body") /\ Acquire(t)
  /\ UNCHANGED <<impl, schema, ledger, sqlite_sequence, cached_ledger,
                 db_initialized, inst, appendLog, version, instVer, cleanups>>

\* DELETE FROM ledger WHERE timestamp < time.time() - max_age_seconds; commit; invalidate
CoreCleanupBody(t) ==
  LET rows == DeleteOlder(ledger, call[t].arg.now - call[t].arg.max_age_seconds) IN
  /\ impl = "core"
  /\ pc[t] = "cleanup_body"
  /\ CommitWrite(t, rows, sqlite_sequence, CoreInvalidateCache(cached_ledger[inst[t]]))
  /\ cleanups' = cleanups + 1
  /\ Return(t, call[t], ReturnedCount(Len(ledger) - Len(rows), version + 1), TRUE)
  /\ UNCHANGED <<impl, schema, db_initialized, inst, appendLog>>

(***************************************************************************)
(* The ledger under concurrent client threads.                             *)
(***************************************************************************)
\* a new database file and newly constructed ledger objects
LedgerFresh ==
  /\ ledger = <<>>
  /\ sqlite_sequence = 0
  /\ lock = [i \in Instances |-> 0]
  /\ cached_ledger = [i \in Instances |-> NoCache]
  /\ db_initialized = [i \in Instances |-> impl # "manager"]
  /\ schema = (impl # "manager")
  /\ pc = [t \in Threads |-> "idle"]
  /\ call = [t \in Threads |-> NoCall]
  /\ last = NoLast
  /\ appendLog = <<>>
  /\ version = 0
  /\ instVer = [i \in Instances |-> 0]
  /\ cleanups = 0

NoRun == [state |-> "none", left |-> 0, from |-> 0, steps |-> 0, finalized |-> FALSE]

\* a constructed Simulation on which nothing has been called yet
SimFresh ==
  /\ step_count = 0
  /\ run = NoRun
  /\ phase = "idle"
  /\ mode = "none"
  /\ acted = [a \in Agents |-> "todo"]
  /\ polled = [a \in Agents |-> "todo"]
  /\ last_seen_id = [a \in Agents |-> 0]
  /\ all_validations = <<>>
  /\ updCalls = [a \in Agents |-> [s \in SigIds |-> 0]]
  /\ confirmed = [a \in Agents |-> {}]
  /\ verdict = [s \in SigIds |-> {}]
  /\ poll_raised = FALSE
  /\ ran_before = {}
  /\ repeated = FALSE

LoopIds == 1 .. MaxLoops
NoLoop == [pc |-> "none", left |-> 0, stopped |-> FALSE]
NoResponse == [req |-> "none", code |-> 0]

\* SimulationBridge.__init__
BridgeFresh ==
  /\ simulation = FALSE
  /\ running = FALSE
  /\ stop_event = FALSE
  /\ simulation_thread = 0
  /\ loop = [l \in LoopIds |-> NoLoop]
  /\ handler = "idle"
  /\ response = NoResponse

Sockets == {1, 2, 3}
NoBroadcast ==
  [pc |-> "idle", used |-> 0, start |-> {}, visited |-> {}, sent |-> {},
   disconnected_clients |-> {}]

\* no WebSocket client has connected yet
SocketFresh ==
  /\ websocket_connections = {}
  /\ client = [s \in Sockets |-> "new"]
  /\ bcast = NoBroadcast

CacheKeys == {"k1", "k2", "k3"}
CacheValues == {"v1", "v2"}
NoCacheCall == [op |-> "none", key |-> "", hit |-> FALSE]

\* BoundedCache.__init__ (max_size is chosen by the behaviour's initial state)
CacheFresh ==
  /\ cache = <<>>
  /\ access_order = <<>>
  /\ uses = <<>>
  /\ cache_call = NoCacheCall

\* AnomalyAgent.__init__: self._validation_cache = {}
AgentCacheFresh == validation_cache = <<>> /\ validated = 0

\* a path that names no file
Absent == <<"absent">>

\* the files a client of FileManager names, and the suffixes FileManager adds
FileNames == {"s1", "s2", "d1", "d2"}
Suffixes == {"", ".backup", ".tmp"}
Paths == FileNames \X Suffixes

NoFileCall ==
  [op |-> "none", target |-> "", mappings |-> <<>>, backup |-> FALSE,
   failed_at |-> "none", before |-> <<>>, raised |-> FALSE]

\* an empty directory and no FileManager call made
FileFresh == fs = [p \in Paths |-> Absent] /\ fcall = NoFileCall /\ file_calls = 0

\* the two files the ledgers are constructed on, and get_config('database.path', 'ledger.db')
StoreFiles == {"P1", "P2"}
ConfigPath == "ledger.db"
DatabaseFiles == StoreFiles \cup {ConfigPath}

NoStoreCall == [op |-> "none", thread |-> 0, db_file |-> "", raised |-> FALSE, rows |-> <<>>]

\* new database files, no connection open, no ledger constructed
StoreFresh ==
  /\ tables = [f \in DatabaseFiles |-> <<>>]
  /\ schemas = {}
  /\ thread_connection = [t \in Threads |-> "none"]
  /\ ledgers = {}
  /\ initialized = {}
  /\ appended = [f \in StoreFiles |-> 0]
  /\ store_call = NoStoreCall

\* PositionMapper.__init__: self.agent_positions = {}
PositionFresh == agent_positions = <<>> /\ position_updates = 0

\* an agent that has not polled yet
PollFresh ==
  /\ poll_stage = "returned"
  /\ new_entries = <<>>
  /\ poll_calls = 0
  /\ query_log = 0
  /\ validated_ids = {}
  /\ between_ids = {}

\* max_recent_data of AnomalyAgent.__init__
MaxRecentData == 1000

\* get_stats() has not been called
NoStats == [current_size |-> 0, max_size |-> 0, total_appended |-> 0, evaluated |-> FALSE]

\* BoundedList(max_size=max_recent_data) of a new agent
BoundedFresh ==
  /\ data = <<>>
  /\ list_max_size = MaxRecentData
  /\ total_appended = 0
  /\ list_lock = FALSE
  /\ frames = <<>>
  /\ waiting = FALSE
  /\ stats = NoStats
  /\ added = 0

\* the utilities before anything has happened
UtilFresh == FileFresh /\ StoreFresh /\ PositionFresh /\ PollFresh /\ BoundedFresh

\* the other components before anything has happened
ComponentsFresh ==
  /\ db_locked = FALSE
  /\ BridgeFresh
  /\ SocketFresh
  /\ max_size = MaxCacheSize /\ CacheFresh
  /\ AgentCacheFresh

OtherFresh == ComponentsFresh /\ UtilFresh

LedgerInit ==
  /\ impl \in Impls
  /\ inst \in {f \in [Threads -> Instances] : f[1] = 1}
  /\ LedgerFresh
  /\ sim = "core" /\ backend = "sequential" /\ stop_on_error = FALSE
  /\ SimFresh
  /\ OtherFresh

\* one step of client thread t inside the ledger
LedgerStep(t) ==
  \/ \E entry \in EntryInputs : RootAppendStart(t, entry)
  \/ \E entry \in EntryInputs : CoreAppendStart(t, entry)
  \/ \E entry \in EntryInputs : ManagerAppendStart(t, entry)
  \/ RootAppendBody(t)
  \/ CoreAppendBody(t)
  \/ ManagerAppendBody(t)
  \/ RootReadStart(t)
  \/ RootReadCached(t)
  \/ RootReadBody(t)
  \/ \E withinTtl \in BOOLEAN : CoreReadStart(t, withinTtl)
  \/ CoreReadCached(t)
  \/ CoreReadBody(t)
  \/ ManagerReadStart(t)
  \/ ManagerReadBody(t)
  \/ \E k \in LastSeenInputs : RootNewStart(t, k)
  \/ \E k \in LastSeenInputs : CoreNewStart(t, k)
  \/ \E k \in LastSeenInputs : ManagerNewStart(t, k)
  \/ RootNewBody(t)
  \/ CoreNewBody(t)
  \/ ManagerNewBody(t)
  \/ \E a \in MaxAgeInputs, n \in NowInputs : CoreCleanupStart(t, a, n)
  \/ CoreCleanupBody(t)

LedgerNext == \E t \in Threads : LedgerStep(t)

LedgerSpec == LedgerInit /\ [][LedgerNext]_vars

\* the same client threads making their ledger calls one after the other
SequentialNext ==
  \E t \in Threads :
    /\ \A u \in Threads \ {t} : pc[u] = "idle"
    /\ LedgerStep(t)

SequentialSpec == LedgerInit /\ [][SequentialNext]_vars

\* append_entry on a database that other connections lock and unlock
RetryStart(t) ==
  \/ \E entry \in EntryInputs : RootAppendStart(t, entry)
  \/ \E entry \in EntryInputs : CoreAppendStart(t, entry)
  \/ \E entry \in EntryInputs : ManagerAppendStart(t, entry)

\* the steps of a thread inside append_entry
RetryStep(t) ==
  \/ AppendInsert(t)
  \/ AppendLocked(t)
  \/ AppendRelock(t)

RetryNext ==
  \/ \E t \in Threads : RetryStart(t)
  \/ \E t \in Threads : RetryStep(t)
  \/ LockStorage
  \/ UnlockStorage

RetrySpec == LedgerInit /\ [][RetryNext]_vars

\* a thread inside append_entry is scheduled again and again
RetryLiveSpec == RetrySpec /\ \A t \in Threads : WF_vars(RetryStep(t))

(***************************************************************************)
(* The agents.                                                             *)
(***************************************************************************)
\* self.node_id = f"Node_{self.unique_id}"
NodeId(a) == <<"Node", a>>

\* the ledger entry of a signature; clock stands for time.time()
Signature(a, clock) ==
  [timestamp |-> clock, node_id |-> NodeId(a), features |-> <<500>>, confidence |-> 5]

\* the methods the agent classes define
AgentMethods ==
  {"generate_traffic", "detect_anomaly", "generate_signature", "broadcast_signature",
   "poll_and_validate", "validate_signature", "update_model_and_blacklist", "step"}

\* broadcast_signature: self.ledger.append_entry(signature), on the simulation's ledger
LedgerAppend(rows, seq, entry) ==
  CASE impl = "root" -> RootInsert(rows, seq, entry)
    [] impl = "core" -> CoreInsert(rows, seq, entry)
    [] OTHER -> ManagerInsert(rows, seq, entry)

\* self.ledger.get_new_entries(self.last_seen_id); an error of the query (no table yet)
\* is caught on the way up and leaves the agent with no entries
GetNewEntries(k) == IF schema THEN SelectNewer(ledger, k) ELSE <<>>

\* poll_and_validate raises what get_new_entries raises: only core/agents.py wraps its
\* body in a try and returns [] instead
PollRaises == sim # "core" /\ ~schema

\* poll_and_validate: one result per new entry of another node; v is what
\* validate_signature answers for each signature id
PollResults(a, new, v) ==
  LET foreign(e) == e.node_id # NodeId(a)
      others == SelectSeq(new, foreign)
  IN  [j \in DOMAIN others |-> [signature_id |-> others[j].id, is_valid |-> v[others[j].id]]]

\* if new_entries: self.last_seen_id = max(e.get('id', 0) for e in read_ledger())
LastSeenAfter(a, new) ==
  IF new # <<>> /\ ledger # <<>>
    THEN SetMax({e.id : e \in Range(SelectAll(ledger))})
    ELSE last_seen_id[a]

\* history: the verdicts of agent a after the validations of one poll
VerdictsAfter(a, results) ==
  [s \in SigIds |->
     IF \E j \in DOMAIN results : results[j].signature_id = s
       THEN LET j == CHOOSE i \in DOMAIN results : results[i].signature_id = s
            IN  IF results[j].is_valid THEN verdict[s] \cup {a} ELSE verdict[s] \ {a}
       ELSE verdict[s]]

(***************************************************************************)
(* The simulation.                                                         *)
(***************************************************************************)
\* self.threshold = num_agents // 2 + 1
Threshold == (Cardinality(Agents) \div 2) + 1

\* all_validations[sig_id].append(is_valid) for the results of one poll
RECURSIVE Aggregate(_, _)
Aggregate(m, results) ==
  IF results = <<>>
    THEN m
    ELSE LET r == Head(results)
             m1 == IF r.signature_id \in DOMAIN m
                     THEN [m EXCEPT ![r.signature_id] = Append(@, r.is_valid)]
                     ELSE m @@ (r.signature_id :> <<r.is_valid>>)
         IN  Aggregate(m1, Tail(results))

\* num_valid = sum(1 for valid in val_list if valid)
NumValid(val_list) == Cardinality({j \in DOMAIN val_list : val_list[j]})

\* the signatures of the vote map with enough true votes that the ledger returns
Reached(m) ==
  {s \in DOMAIN m : NumValid(m[s]) >= Threshold /\ schema /\ SelectById(ledger, s) # <<>>}

\* how the tasks of a phase are executed; ok: the Ray / process-pool submission works.
\* The function and the agent of a task are serialised when the task is submitted, so a
\* submission fails before any task of the phase has started.  A failed submission makes
\* the engine fall back to the sequential loop and makes the other two implementations
\* raise.
ModeFor(ok) ==
  CASE backend = "sequential" -> "sequential"
    [] backend = "threads" -> "threads"
    [] OTHER -> IF ok THEN "remote" ELSE IF sim = "engine" THEN "sequential" ELSE "failed"

\* a join that returns as soon as one task has completed
WaitAny(tasks) == \E a \in Agents : tasks[a] = "done"

\* for future in as_completed(futures): ... / ray.get(futures): every task has completed
WaitAll(tasks) == \A a \in Agents : tasks[a] = "done"

\* control leaves run(): only run() of core/simulation.py has a finally clause, which
\* calls self._finalize_run() and with it self.cleanup(); the two other run() methods log
\* and return, or let the exception through
RunEnds(r, how) == [r EXCEPT !.left = 0, !.state = how, !.finalized = (sim = "core")]

\* run(): the loop after a step that returned
RunAfterStep(r) ==
  IF r.left = 1
    THEN RunEnds(r, "returned")
    ELSE [r EXCEPT !.left = @ - 1]

\* run() of src/simulation.py: try/except inside the loop
RootRunAfterStepError(r) ==
  IF stop_on_error THEN RunEnds(r, "raised") ELSE RunAfterStep(r)

\* run() of core/simulation.py: the try statement encloses the whole loop
CoreRunAfterStepError(r) ==
  RunEnds(r, IF stop_on_error THEN "raised" ELSE "returned")

\* run() of simulation_engine.py: try/except inside the loop
EngineRunAfterStepError(r) ==
  IF stop_on_error THEN RunEnds(r, "raised") ELSE RunAfterStep(r)

RunAfterStepError(r) ==
  CASE sim = "root" -> RootRunAfterStepError(r)
    [] sim = "core" -> CoreRunAfterStepError(r)
    [] OTHER -> EngineRunAfterStepError(r)

\* step() re-raises: the step is over and run() deals with the error
StepRaised ==
  /\ phase' = "idle"
  /\ mode' = "none"
  /\ run' = RunAfterStepError(run)

\* the client calls run(steps)
RunCall(steps) ==
  /\ run.state = "none"
  /\ phase = "idle"
  /\ run' = [state |-> "running", left |-> steps, from |-> step_count, steps |-> steps,
             finalized |-> FALSE]
  /\ poll_raised' = FALSE
  /\ UNCHANGED otherVars
  /\ UNCHANGED <<ran_before, repeated>>
  /\ UNCHANGED <<ledgerVars, sim, backend, stop_on_error, step_count, phase, mode, acted,
                 polled, last_seen_id, all_validations, updCalls, confirmed, verdict>>

\* step() begins: core/simulation.py counts the step before anything can fail; phase 1
\* submits the agents' step() tasks
StepBegin(ok) ==
  /\ run.state = "running"
  /\ phase = "idle"
  /\ step_count' = IF sim = "core" THEN step_count + 1 ELSE step_count
  /\ acted' = [a \in Agents |-> "todo"]
  /\ polled' = [a \in Agents |-> "todo"]
  /\ updCalls' = [a \in Agents |-> [s \in SigIds |-> 0]]
  /\ all_validations' = <<>>
  /\ IF ModeFor(ok) = "failed"
       THEN StepRaised
       ELSE phase' = "act" /\ mode' = ModeFor(ok) /\ UNCHANGED run
  /\ poll_raised' = FALSE
  /\ UNCHANGED otherVars
  /\ ran_before' = {} /\ repeated' = FALSE
  /\ UNCHANGED <<ledgerVars, sim, backend, stop_on_error, last_seen_id, confirmed, verdict>>

\* the task of agent a is invoked: a second time when it had run before the fallback
Invoke(a) ==
  /\ ran_before' = ran_before \ {a}
  /\ repeated' = (repeated \/ a \in ran_before)

\* agent.step(), first half: generate traffic and, on an anomaly, broadcast the signature
ActBroadcast(a, has_anomaly) ==
  /\ phase = "act"
  /\ acted[a] = "todo"
  /\ mode = "sequential" => \A b \in Agents : acted[b] # "running"
  /\ has_anomaly => sqlite_sequence < MaxAppends
  /\ IF has_anomaly
       THEN /\ ledger' = LedgerAppend(ledger, sqlite_sequence,
                                      Signature(a, sqlite_sequence + 1))
            /\ sqlite_sequence' = sqlite_sequence + 1
            /\ schema' = TRUE
       ELSE UNCHANGED <<ledger, sqlite_sequence, schema>>
  /\ acted' = [acted EXCEPT ![a] = "running"]
  /\ UNCHANGED <<impl, lock, cached_ledger, db_initialized, inst, pc, call, last, appendLog,
                 version, instVer, cleanups>>
  /\ poll_raised' = FALSE
  /\ UNCHANGED otherVars
  /\ Invoke(a)
  /\ UNCHANGED <<sim, backend, stop_on_error, step_count, run, phase, mode, polled,
                 last_seen_id, all_validations, updCalls, confirmed, verdict>>

\* agent.step(), second half: self.poll_and_validate(), its result dropped; a task that
\* runs in another process works on a copy of the agent
ActPoll(a, v) ==
  LET new == GetNewEntries(last_seen_id[a]) IN
  /\ phase = "act"
  /\ acted[a] = "running"
  /\ verdict' = VerdictsAfter(a, PollResults(a, new, v))
  /\ last_seen_id' = IF mode = "remote"
                       THEN last_seen_id
                       ELSE [last_seen_id EXCEPT ![a] = LastSeenAfter(a, new)]
  /\ acted' = [acted EXCEPT ![a] = "done"]
  /\ poll_raised' = PollRaises
  /\ UNCHANGED otherVars
  /\ UNCHANGED <<ran_before, repeated>>
  /\ UNCHANGED <<ledgerVars, sim, backend, stop_on_error, step_count, run, phase, mode,
                 polled, all_validations, updCalls, confirmed>>

\* agent.step() hits an internal exception (traffic generation, the detector, the ledger
\* or the blacklist file fails).  AnomalyAgent.step of core/agents.py catches it itself and
\* execute_single_agent of simulation_engine.py catches it around agent.step(); the agent's
\* task is over.  src/agents.py has no try in step() and src/simulation.py calls
\* agent.step() bare in its loop, so the exception leaves the loop and step() re-raises
\* it.  A fault inside a Ray task of src/simulation.py is not modelled.
ActFault(a) ==
  /\ phase = "act"
  /\ acted[a] # "done"
  /\ (mode = "sequential" /\ acted[a] = "todo") => \A b \in Agents : acted[b] # "running"
  /\ sim = "root" => mode = "sequential"
  /\ IF sim = "root"
       THEN StepRaised /\ UNCHANGED acted
       ELSE acted' = [acted EXCEPT ![a] = "done"] /\ UNCHANGED <<run, phase, mode>>
  /\ poll_raised' = FALSE
  /\ UNCHANGED otherVars
  /\ IF acted[a] = "todo" THEN Invoke(a) ELSE UNCHANGED <<ran_before, repeated>>
  /\ UNCHANGED <<ledgerVars, sim, backend, stop_on_error, step_count, polled, last_seen_id,
                 all_validations, updCalls, confirmed, verdict>>

\* _execute_parallel_steps: ray.get(futures) raises after tasks have run (a worker died,
\* an object was lost); the except clause calls _execute_sequential_steps, whose loop
\* goes through all of self.node_agents.  Only simulation_engine.py has this fallback.
ActFallback ==
  /\ sim = "engine"
  /\ phase = "act"
  /\ mode = "remote"
  /\ \A a \in Agents : acted[a] # "running"
  /\ mode' = "sequential"
  /\ ran_before' = {a \in Agents : acted[a] = "done"}
  /\ acted' = [a \in Agents |-> "todo"]
  /\ poll_raised' = FALSE
  /\ UNCHANGED otherVars
  /\ UNCHANGED <<ledgerVars, sim, backend, stop_on_error, step_count, run, phase, polled,
                 last_seen_id, all_validations, updCalls, confirmed, verdict, repeated>>

\* phase 1 is over once every task has completed; phase 2 submits the polls
ActJoin(ok) ==
  /\ phase = "act"
  /\ WaitAll(acted)
  /\ IF ModeFor(ok) = "failed"
       THEN StepRaised
       ELSE phase' = "poll" /\ mode' = ModeFor(ok) /\ UNCHANGED run
  /\ poll_raised' = FALSE
  /\ UNCHANGED otherVars
  /\ UNCHANGED <<ran_before, repeated>>
  /\ UNCHANGED <<ledgerVars, sim, backend, stop_on_error, step_count, acted, polled,
                 last_seen_id, all_validations, updCalls, confirmed, verdict>>

\* agent_poll(agent): agent.poll_and_validate(), its results added to the vote map; the
\* sequential loop polls the agents in list order
PollTask(a, v) ==
  LET new == GetNewEntries(last_seen_id[a])
      results == PollResults(a, new, v)
  IN  /\ phase = "poll"
      /\ polled[a] = "todo"
      /\ mode = "sequential" => \A b \in Agents : b < a => polled[b] = "done"
      /\ all_validations' = Aggregate(all_validations, results)
      /\ verdict' = VerdictsAfter(a, results)
      /\ last_seen_id' = IF mode = "remote"
                           THEN last_seen_id
                           ELSE [last_seen_id EXCEPT ![a] = LastSeenAfter(a, new)]
      /\ polled' = [polled EXCEPT ![a] = "done"]
      /\ poll_raised' = PollRaises
      /\ UNCHANGED otherVars
      /\ Invoke(a)
      /\ UNCHANGED <<ledgerVars, sim, backend, stop_on_error, step_count, run, phase, mode,
                     acted, updCalls, confirmed>>

\* _collect_parallel_validations: pool.map raises after polls have run; the except
\* clause returns _collect_sequential_validations(poll_func), the polls of all agents,
\* and the results of the pool are lost
PollFallback ==
  /\ sim = "engine"
  /\ phase = "poll"
  /\ mode = "remote"
  /\ mode' = "sequential"
  /\ ran_before' = {a \in Agents : polled[a] = "done"}
  /\ polled' = [a \in Agents |-> "todo"]
  /\ all_validations' = <<>>
  /\ poll_raised' = FALSE
  /\ UNCHANGED otherVars
  /\ UNCHANGED <<ledgerVars, sim, backend, stop_on_error, step_count, run, phase, acted,
                 last_seen_id, updCalls, confirmed, verdict, repeated>>

\* phase 2 is over once every poll has returned; phase 3 is resolve_consensus
PollJoin(ok) ==
  /\ phase = "poll"
  /\ WaitAll(polled)
  /\ phase' = "resolve"
  /\ mode' = ModeFor(ok)
  /\ poll_raised' = FALSE
  /\ UNCHANGED otherVars
  /\ UNCHANGED <<ran_before, repeated>>
  /\ UNCHANGED <<ledgerVars, sim, backend, stop_on_error, step_count, run, acted, polled,
                 last_seen_id, all_validations, updCalls, confirmed, verdict>>

\* the client calls resolve_consensus(votes) itself
ResolveCall(votes, ok) ==
  /\ run.state # "running"
  /\ phase = "idle"
  /\ all_validations' = votes
  /\ phase' = "resolve"
  /\ mode' = ModeFor(ok)
  /\ poll_raised' = FALSE
  /\ UNCHANGED otherVars
  /\ UNCHANGED <<ran_before, repeated>>
  /\ UNCHANGED <<ledgerVars, sim, backend, stop_on_error, step_count, run, acted, polled,
                 last_seen_id, updCalls, confirmed, verdict>>

\* src/simulation.py: agent.update_model_and_blacklist(sig) for every agent; a failed Ray
\* submission raises out of resolve_consensus
RootUpdated(m) == IF mode = "failed" THEN {} ELSE Reached(m)

\* core/simulation.py: _update_single_agent calls agent.update_model_and_blacklist_from_dict
CoreUpdated(m) ==
  IF "update_model_and_blacklist_from_dict" \in AgentMethods /\ mode # "failed"
    THEN Reached(m)
    ELSE {}

\* simulation_engine.py: agent.update_model_and_blacklist(sig) for every agent, each in
\* its own try; a failed Ray submission falls back to that loop
EngineUpdated(m) == Reached(m)

\* the signatures every agent's update_model_and_blacklist is called with
Updated(m) ==
  CASE sim = "root" -> RootUpdated(m)
    [] sim = "core" -> CoreUpdated(m)
    [] OTHER -> EngineUpdated(m)

\* resolve_consensus(all_validations), then the end of step()
ResolveConsensus ==
  LET upd == Updated(all_validations)
      raised == sim = "root" /\ mode = "failed" /\ Reached(all_validations) # {}
  IN  /\ phase = "resolve"
      /\ updCalls' = [a \in Agents |-> [s \in SigIds |-> IF s \in upd THEN 1 ELSE 0]]
      /\ confirmed' = [a \in Agents |-> confirmed[a] \cup upd]
      /\ phase' = "idle"
      /\ mode' = "none"
      /\ run' = IF run.state # "running"
                  THEN run
                  ELSE IF raised THEN RunAfterStepError(run) ELSE RunAfterStep(run)
      /\ poll_raised' = FALSE
      /\ UNCHANGED otherVars
      /\ UNCHANGED <<ran_before, repeated>>
      /\ UNCHANGED <<ledgerVars, sim, backend, stop_on_error, step_count, acted, polled,
                     last_seen_id, all_validations, verdict>>

\* vote maps a client passes to resolve_consensus
VoteMapInputs ==
  {(1 :> <<TRUE, TRUE, FALSE>>),
   (1 :> <<TRUE, FALSE, FALSE>>),
   (1 :> <<TRUE, TRUE>>) @@ (2 :> <<TRUE>>)}

\* the ledger class each simulation is written against: src/simulation.py imports
\* src/database.py, core/simulation.py (ValidationResult, get_entry_by_id) goes with
\* core/agents.py and core/database.py, simulation_engine.py imports the package
\* core/database, which is ledger_manager.py
LedgerOf(s) ==
  CASE s = "root" -> "root"
    [] s = "core" -> "core"
    [] OTHER -> "manager"

SimInit ==
  /\ sim \in SimImpls
  /\ backend \in IF sim = "core" THEN Backends ELSE Backends \ {"threads"}
  /\ stop_on_error \in BOOLEAN
  /\ impl = LedgerOf(sim)
  /\ inst = [t \in Threads |-> 1]
  /\ LedgerFresh
  /\ SimFresh
  /\ OtherFresh

SimNext ==
  \/ \E steps \in 1 .. MaxSteps : RunCall(steps)
  \/ \E ok \in BOOLEAN : StepBegin(ok)
  \/ \E a \in Agents, has_anomaly \in BOOLEAN : ActBroadcast(a, has_anomaly)
  \/ \E a \in Agents, v \in [SigIds -> BOOLEAN] : ActPoll(a, v)
  \/ \E a \in Agents : ActFault(a)
  \/ \E ok \in BOOLEAN : ActJoin(ok)
  \/ \E a \in Agents, v \in [SigIds -> BOOLEAN] : PollTask(a, v)
  \/ \E ok \in BOOLEAN : PollJoin(ok)
  \/ \E votes \in VoteMapInputs, ok \in BOOLEAN : ResolveCall(votes, ok)
  \/ ResolveConsensus

SimSpec == SimInit /\ [][SimNext]_vars

\* the simulation engine on Ray, whose parallel phases can fail part-way and fall back
\* to the sequential loops
FallbackInit ==
  /\ SimInit
  /\ sim = "engine"
  /\ backend = "ray"
  /\ ~stop_on_error

FallbackNext ==
  \/ SimNext
  \/ ActFallback
  \/ PollFallback

FallbackSpec == FallbackInit /\ [][FallbackNext]_vars

(***************************************************************************)
(* The backend bridge: SimulationBridge and its HTTP endpoints.            *)
(***************************************************************************)
\* the state the bridge does not touch
bridgeRest == <<ledgerVars, simVars, db_locked, socketVars, cacheVars, agentVars, utilVars>>

\* threading.Thread.is_alive() of loop thread l
IsAlive(l) == l # 0 /\ loop[l].pc \notin {"none", "ended"}

\* stop_simulation(): self.running = False; self.stop_event.set(); then the join
StopSimulation ==
  /\ running' = FALSE
  /\ stop_event' = TRUE
  /\ loop' = [l \in LoopIds |-> IF IsAlive(l) THEN [loop[l] EXCEPT !.stopped = TRUE]
                                               ELSE loop[l]]

\* POST /simulation/initialize: initialize_simulation(); with a simulation present it
\* begins with cleanup(), which calls stop_simulation(); ok: the constructors succeed
InitializeRequest(ok) ==
  /\ handler = "idle"
  /\ IF simulation
       THEN /\ StopSimulation
            /\ handler' = "init_join"
            /\ response' = NoResponse
            /\ UNCHANGED simulation
       ELSE /\ simulation' = ok
            /\ response' = [req |-> "initialize", code |-> IF ok THEN 200 ELSE 500]
            /\ UNCHANGED <<running, stop_event, loop, handler>>
  /\ UNCHANGED <<simulation_thread, bridgeRest>>

\* POST /simulation/stop: stop_simulation()
StopRequest ==
  /\ handler = "idle"
  /\ StopSimulation
  /\ handler' = "stop_join"
  /\ response' = NoResponse
  /\ UNCHANGED <<simulation, simulation_thread, bridgeRest>>

\* self.simulation_thread.join(timeout=2.0) returns: the thread has ended, or two
\* seconds have passed while it is inside simulation.step() or the broadcast; then the
\* handler finishes
JoinReturns(ok) ==
  /\ handler \in {"stop_join", "init_join"}
  /\ IsAlive(simulation_thread) => loop[simulation_thread].pc \in {"step", "broadcast"}
  /\ IF handler = "stop_join"
       THEN /\ response' = [req |-> "stop", code |-> 200]
            /\ UNCHANGED simulation
       ELSE /\ simulation' = ok
            /\ response' = [req |-> "initialize", code |-> IF ok THEN 200 ELSE 500]
  /\ handler' = "idle"
  /\ UNCHANGED <<running, stop_event, simulation_thread, loop, bridgeRest>>

\* the loop thread start_simulation() creates
NewLoop == CHOOSE l \in LoopIds : loop[l].pc = "none" /\ \A k \in LoopIds : k < l => loop[k].pc # "none"

\* POST /simulation/start: start_simulation(steps); False becomes HTTP 400
StartRequest(steps) ==
  /\ handler = "idle"
  /\ IF running \/ ~simulation
       THEN /\ response' = [req |-> "start", code |-> 400]
            /\ UNCHANGED <<running, stop_event, simulation_thread, loop>>
       ELSE /\ \E l \in LoopIds : loop[l].pc = "none"
            /\ stop_event' = FALSE
            /\ running' = TRUE
            /\ loop' = [loop EXCEPT ![NewLoop] = [pc |-> "check", left |-> steps,
                                                  stopped |-> FALSE]]
            /\ simulation_thread' = NewLoop
            /\ response' = [req |-> "start", code |-> 200]
  /\ UNCHANGED <<simulation, handler, bridgeRest>>

\* the thread leaves _run_simulation_loop: finally: self.running = False
LoopEnds(l) ==
  /\ loop' = [loop EXCEPT ![l].pc = "ended"]
  /\ running' = FALSE

\* while self.running and step_count < steps and not self.stop_event.is_set():
\*     if self.simulation: ... else: break
LoopCheck(l) ==
  /\ loop[l].pc = "check"
  /\ IF running /\ loop[l].left > 0 /\ ~stop_event /\ simulation
       THEN loop' = [loop EXCEPT ![l].pc = "step"] /\ UNCHANGED running
       ELSE LoopEnds(l)
  /\ response' = NoResponse
  /\ UNCHANGED <<simulation, stop_event, simulation_thread, handler, bridgeRest>>

\* self.simulation.step() returns (step_count += 1) or raises (except: log; finally)
LoopStep(l, ok) ==
  /\ loop[l].pc = "step"
  /\ IF ok
       THEN loop' = [loop EXCEPT ![l].pc = "broadcast", ![l].left = @ - 1]
            /\ UNCHANGED running
       ELSE LoopEnds(l)
  /\ response' = NoResponse
  /\ UNCHANGED <<simulation, stop_event, simulation_thread, handler, bridgeRest>>

\* the rest of the loop body: _update_3d_data(), the broadcast, the metrics, the sleep
LoopBroadcast(l) ==
  /\ loop[l].pc = "broadcast"
  /\ loop' = [loop EXCEPT ![l].pc = "check"]
  /\ response' = NoResponse
  /\ UNCHANGED <<simulation, running, stop_event, simulation_thread, handler, bridgeRest>>

\* the simulation of a behaviour of the bridge is not observed
QuietLedgerAndSim ==
  /\ impl = "core"
  /\ inst = [t \in Threads |-> 1]
  /\ LedgerFresh
  /\ sim = "core" /\ backend = "sequential" /\ stop_on_error = FALSE
  /\ SimFresh

QuietInit == QuietLedgerAndSim /\ OtherFresh

BridgeNext ==
  \/ \E ok \in BOOLEAN : InitializeRequest(ok)
  \/ \E steps \in 1 .. MaxSteps : StartRequest(steps)
  \/ StopRequest
  \/ \E ok \in BOOLEAN : JoinReturns(ok)
  \/ \E l \in LoopIds : LoopCheck(l)
  \/ \E l \in LoopIds, ok \in BOOLEAN : LoopStep(l, ok)
  \/ \E l \in LoopIds : LoopBroadcast(l)

BridgeSpec == QuietInit /\ [][BridgeNext]_vars

(***************************************************************************)
(* The WebSocket clients and the broadcast.  The endpoint handlers run on  *)
(* the server's event loop; the broadcast runs in the loop thread, under   *)
(* its own asyncio.run, on the same set object.                            *)
(***************************************************************************)
socketRest == <<ledgerVars, simVars, db_locked, bridgeVars, cacheVars, agentVars, utilVars>>

\* websocket_simulation_endpoint: accept(), websocket_connections.add(websocket)
Connect(s) ==
  /\ client[s] = "new"
  /\ client' = [client EXCEPT ![s] = "open"]
  /\ websocket_connections' = websocket_connections \cup {s}
  /\ UNCHANGED <<bcast, socketRest>>

\* the peer goes away: from now on a send to the socket raises
PeerLeaves(s) ==
  /\ client[s] = "open"
  /\ client' = [client EXCEPT ![s] = "gone"]
  /\ UNCHANGED <<websocket_connections, bcast, socketRest>>

\* the handler notices: finally: websocket_connections.discard(websocket)
HandlerExits(s) ==
  /\ client[s] = "gone"
  /\ client' = [client EXCEPT ![s] = "closed"]
  /\ websocket_connections' = websocket_connections \ {s}
  /\ UNCHANGED <<bcast, socketRest>>

\* _broadcast_simulation_update: for websocket in self.websocket_connections creates the
\* set iterator, which records the size of the set
BroadcastBegin ==
  /\ bcast.pc = "idle"
  /\ websocket_connections # {}
  /\ bcast' = [NoBroadcast EXCEPT !.pc = "iter",
                                  !.used = Cardinality(websocket_connections),
                                  !.start = websocket_connections]
  /\ UNCHANGED <<websocket_connections, client, socketRest>>

\* the iterator is asked for the next socket.  A set whose size differs from the recorded
\* one makes it raise RuntimeError, which the outer except logs: the removal is skipped.
\* A socket added since the iterator was created may be passed over.  After the last
\* socket: self.websocket_connections -= disconnected_clients
BroadcastNext ==
  LET todo == websocket_connections \ bcast.visited IN
  /\ bcast.pc = "iter"
  /\ \/ /\ Cardinality(websocket_connections) # bcast.used
        /\ bcast' = [bcast EXCEPT !.pc = "done"]
        /\ UNCHANGED websocket_connections
     \/ /\ Cardinality(websocket_connections) = bcast.used
        /\ todo \cap bcast.start = {}
        /\ bcast' = [bcast EXCEPT !.pc = "done"]
        /\ websocket_connections' = websocket_connections \ bcast.disconnected_clients
     \/ /\ Cardinality(websocket_connections) = bcast.used
        /\ \E s \in todo :
             bcast' = IF client[s] = "open"
                        THEN [bcast EXCEPT !.visited = @ \cup {s}, !.sent = @ \cup {s}]
                        ELSE [bcast EXCEPT !.visited = @ \cup {s},
                                           !.disconnected_clients = @ \cup {s}]
        /\ UNCHANGED websocket_connections
  /\ UNCHANGED <<client, socketRest>>

\* the broadcast has returned; the loop goes on to its next step
BroadcastEnd ==
  /\ bcast.pc = "done"
  /\ bcast' = NoBroadcast
  /\ UNCHANGED <<websocket_connections, client, socketRest>>

SocketNext ==
  \/ \E s \in Sockets : Connect(s)
  \/ \E s \in Sockets : PeerLeaves(s)
  \/ \E s \in Sockets : HandlerExits(s)
  \/ BroadcastBegin
  \/ BroadcastNext
  \/ BroadcastEnd

SocketSpec == QuietInit /\ [][SocketNext]_vars

(***************************************************************************)
(* BoundedCache of ledger_manager.py.  Every method runs under self.lock.   *)
(***************************************************************************)
cacheRest == <<ledgerVars, simVars, db_locked, bridgeVars, socketVars, agentVars, utilVars>>

\* self.access_order.remove(key)
Remove(order, key) == SelectSeq(order, LAMBDA k : k # key)

\* a get that leaves the access order alone
KeepOrder(order, key) == order

\* get, on a hit: self.access_order.remove(key); self.access_order.append(key)
Touch(order, key) == Append(Remove(order, key), key)

\* del self.cache[lru_key]
DelKey(c, key) == [k \in DOMAIN c \ {key} |-> c[k]]

\* self.cache[key] = value
SetKey(c, key, value) == [k \in DOMAIN c \cup {key} |-> IF k = key THEN value ELSE c[k]]

\* BoundedCache.get(key)
CacheGet(key) ==
  /\ Len(uses) < MaxCacheOps
  /\ IF key \in DOMAIN cache
       THEN /\ access_order' = Touch(access_order, key)
            /\ uses' = Append(uses, key)
       ELSE UNCHANGED <<access_order, uses>>
  /\ cache_call' = [op |-> "get", key |-> key, hit |-> key \in DOMAIN cache]
  /\ UNCHANGED <<max_size, cache, cacheRest>>

\* BoundedCache.put(key, value)
CachePut(key, value) ==
  LET evict == key \notin DOMAIN cache /\ Cardinality(DOMAIN cache) >= max_size
      order == IF key \in DOMAIN cache
                 THEN Remove(access_order, key)
                 ELSE IF evict THEN Tail(access_order) ELSE access_order
      kept == IF evict THEN DelKey(cache, Head(access_order)) ELSE cache
  IN  /\ Len(uses) < MaxCacheOps
      /\ cache' = SetKey(kept, key, value)
      /\ access_order' = Append(order, key)
      /\ uses' = Append(uses, key)
      /\ cache_call' = [op |-> "put", key |-> key, hit |-> key \in DOMAIN cache]
      /\ UNCHANGED <<max_size, cacheRest>>

\* BoundedCache.size()
Size == Cardinality(DOMAIN cache)

CacheInit ==
  /\ impl = "manager"
  /\ inst = [t \in Threads |-> 1]
  /\ LedgerFresh
  /\ sim = "engine" /\ backend = "sequential" /\ stop_on_error = FALSE
  /\ SimFresh
  /\ db_locked = FALSE /\ BridgeFresh /\ SocketFresh /\ AgentCacheFresh
  /\ UtilFresh
  /\ max_size \in 1 .. MaxCacheSize
  /\ CacheFresh

CacheNext ==
  \/ \E key \in CacheKeys : CacheGet(key)
  \/ \E key \in CacheKeys, value \in CacheValues : CachePut(key, value)

CacheSpec == CacheInit /\ [][CacheNext]_vars

(***************************************************************************)
(* The validation cache of an agent (core/agents.py).  The cached verdicts *)
(* play no part in the size of the cache and are left out; signature keys  *)
(* are numbered in the order the agent first meets them.                   *)
(***************************************************************************)
agentRest == <<ledgerVars, simVars, db_locked, bridgeVars, socketVars, cacheVars, utilVars>>

\* if len(self._validation_cache) > 100:
CacheLimit == 100

\* self._validation_cache = dict(items[50:])
KeptFrom == 50

\* _cache_and_return(cache_key, result)
CacheAndReturn(c, key) ==
  LET kept == IF Len(c) > CacheLimit THEN SubSeq(c, KeptFrom + 1, Len(c)) ELSE c
  IN  Append(kept, key)

\* validate_signature(signature): a key found in the cache is answered from it; any
\* other outcome, the except clause included, goes through _cache_and_return.  The
\* signature is one the cache holds or one the agent has not met before.
ValidateSignature(key) ==
  /\ key \in Range(validation_cache) \cup {validated + 1}
  /\ IF key \in Range(validation_cache)
       THEN UNCHANGED <<validation_cache, validated>>
       ELSE /\ validated < MaxValidations
            /\ validation_cache' = CacheAndReturn(validation_cache, key)
            /\ validated' = validated + 1
  /\ UNCHANGED agentRest

AgentCacheNext == \E key \in 1 .. MaxValidations : ValidateSignature(key)

AgentCacheSpec == QuietInit /\ [][AgentCacheNext]_vars

(***************************************************************************)
(* Properties of the ledger.                                               *)
(***************************************************************************)
\* the entry read_ledger is expected to give back for a logged append
ExpectedEntry(a) ==
  [id |-> a.id, timestamp |-> a.entry.timestamp, node_id |-> a.entry.node_id,
   features |-> a.entry.features, confidence |-> a.entry.confidence]

OneInstance == \A u, v \in Threads : inst[u] = inst[v]

\* C1: with the calls made one after the other on one ledger and no cleanup, the ids
\* returned by the successful appends strictly increase in call order, and read_ledger
\* returns exactly the appended entries, in that order
C1_SequentialAppendRead ==
  (cleanups = 0 /\ OneInstance) =>
    /\ \A k \in 1 .. (Len(appendLog) - 1) : appendLog[k].id < appendLog[k + 1].id
    /\ last.op = "read" =>
         /\ last.kind = "rows"
         /\ last.rows = [k \in 1 .. Len(appendLog) |-> ExpectedEntry(appendLog[k])]

\* C2: concurrent appends on the same database each get a distinct id, and a
\* read_ledger issued after all of them have returned holds every appended entry
C2_ConcurrentAppends ==
  cleanups = 0 =>
    /\ \A j, k \in DOMAIN appendLog : j # k => appendLog[j].id # appendLog[k].id
    /\ (last.op = "read" /\ last.log = Len(appendLog) /\ AppendsInFlight = 0) =>
         /\ last.kind = "rows"
         /\ \A k \in DOMAIN appendLog : ExpectedEntry(appendLog[k]) \in Range(last.rows)

\* a step in which a cleanup_old_entries call commits
CleanupStep == \E t \in Threads : pc[t] = "cleanup_body" /\ pc'[t] = "idle"

\* C3: a row, once written, stays in the table unchanged (same id, same content) across
\* every step that is not a cleanup_old_entries commit
C3_EntriesImmutable ==
  [][~CleanupStep => \A k \in DOMAIN ledger : ledger[k] \in Range(ledger')]_vars

\* C4: get_new_entries(k) with k >= 0 returns exactly the entries of the table whose id
\* is greater than k, in ascending id order, hence nothing when k is the greatest id
C4_NewEntriesExact ==
  (last.op = "new" /\ last.arg.last_seen_id >= 0) =>
    LET k == last.arg.last_seen_id
        rows == last.rows
    IN  /\ last.kind = "rows"
        /\ \A j \in DOMAIN rows :
             rows[j].id > k /\ \E r \in Range(ledger) : RowToEntry(r) = rows[j]
        /\ \A r \in Range(ledger) : r.id > k => RowToEntry(r) \in Range(rows)
        /\ \A i, j \in DOMAIN rows : i < j => rows[i].id < rows[j].id
        /\ k = SetMax({r.id : r \in Range(ledger)}) => rows = <<>>

OutOfRange(entry) == entry.confidence < 0 \/ entry.confidence > ConfOne

\* C5: an append_entry whose confidence lies outside [0, 1] raises before the call has
\* touched the database: it never gets past validation, and no such row is ever stored
C5_ConfidenceRejected ==
  /\ \A t \in Threads :
       (call[t].op = "append" /\ HasKeys(call[t].arg)) => ~OutOfRange(call[t].arg)
  /\ (last.op = "append" /\ HasKeys(last.arg) /\ OutOfRange(last.arg)) =>
       last.kind = "raised" /\ ~last.io
  /\ \A r \in Range(ledger) : ~OutOfRange(r)

\* C6: on one ledger instance a read_ledger that begins after a write has returned
\* returns the rows as of a table version that is not older than that write
C6_NoStaleRead ==
  (OneInstance /\ last.op = "read" /\ last.need >= 1) =>
    last.kind = "rows" /\ last.ver >= last.need

(***************************************************************************)
(* Properties of the simulation.                                           *)
(***************************************************************************)
\* self.ledger.get_entry_by_id(sig_id) returns an entry
LedgerReturns(s) == \E r \in Range(ledger) : r.id = s

\* C7: when resolve_consensus has returned, update_model_and_blacklist has been invoked
\* exactly once on every agent for each signature of the vote map whose true votes number
\* at least threshold and whose entry the ledger returns, and on no agent for any other
\* (stated for the backends that update the agents of this process: under Ray the calls
\* are made on copies of the agents)
C7_ConsensusUpdates ==
  (phase = "idle" /\ backend # "ray") =>
    \A a \in Agents, s \in SigIds :
      updCalls[a][s] =
        IF /\ s \in DOMAIN all_validations
           /\ NumValid(all_validations[s]) >= Threshold
           /\ LedgerReturns(s)
          THEN 1
          ELSE 0

\* the agents whose validate_signature judged entry s valid
JudgedValid(s) == verdict[s]

\* agent a has been updated with entry s: by resolve_consensus, or by its own step() when
\* it broadcast the entry
UpdatedWith(a, s) ==
  \/ s \in confirmed[a]
  \/ \E r \in Range(ledger) : r.id = s /\ r.node_id = NodeId(a)

\* C8: between steps, once every agent has polled past a broadcast entry, so that no
\* later step can add a vote for it, an entry that at least threshold agents judged valid
\* has reached the threshold in a tally and every agent has been updated with it
C8_ConsensusResolves ==
  \A s \in SigIds :
    (/\ phase = "idle"
     /\ LedgerReturns(s)
     /\ Cardinality(JudgedValid(s)) >= Threshold
     /\ \A a \in Agents : last_seen_id[a] >= s)
      => \A a \in Agents : UpdatedWith(a, s)

\* C9: while a step() runs, under every backend, a poll-phase poll_and_validate has
\* happened only when every agent's act-phase step() has completed, and resolve_consensus
\* is reached only when every agent's poll has completed
C9_PhaseBarriers ==
  run.state = "running" =>
    /\ (\E a \in Agents : polled[a] = "done") => \A b \in Agents : acted[b] = "done"
    /\ phase = "poll" => \A b \in Agents : acted[b] = "done"
    /\ phase = "resolve" => \A a \in Agents : polled[a] = "done"

\* a thread-pool step in its poll phase, after a broadcast: one agent has polled and
\* another has not
C9_Witness ==
  /\ run.state = "running"
  /\ phase = "poll"
  /\ mode = "threads"
  /\ ledger # <<>>
  /\ \E a, b \in Agents : polled[a] = "done" /\ polled[b] = "todo"

\* C10: when run(steps) of core/simulation.py is over, step_count has grown by exactly
\* steps, unless the run raised because a step failed with stop_on_error set
C10_RunCountsSteps ==
  (sim = "core" /\ run.state \in {"returned", "raised"}) =>
    \/ step_count = run.from + run.steps
    \/ run.state = "raised" /\ stop_on_error

\* C11: whatever the concurrent backend does, a phase of a running step() is carried
\* through: the step enters its act phase, the act phase is followed by the poll phase,
\* and the step ends by returning to run(), never by raising
C11_BackendFallback ==
  [][run.state = "running" =>
       /\ phase = "idle" => phase' = "act"
       /\ (phase = "act" /\ phase' # "act") => phase' = "poll"
       /\ (phase = "resolve" /\ phase' # "resolve") => run' = RunAfterStep(run)]_vars


\* C12: an agent's exception never ends the act phase of a running step: as long as some
\* agent has not completed its step(), the simulation step stays in its act phase, so
\* every other agent still executes its step and step() does not raise
C12_AgentFailureContained ==
  [][(run.state = "running" /\ phase = "act" /\ ~WaitAll(acted)) => phase' = "act"]_vars

\* C13: poll_and_validate() never raises: no step of the simulation is a
\* poll_and_validate() call that ended with an exception
C13_PollNeverRaises == ~poll_raised

\* C14: append_entry terminates: a thread inside append_entry, however long the database
\* stays locked, eventually leaves the call (with the new id or by raising)
C14_AppendTerminates == \A t \in Threads : (pc[t] \in AppendPcs) ~> (pc[t] = "idle")

\* C15: control never leaves run() without the finalisation having run: a run() call of
\* core/simulation.py or simulation_engine.py that has returned or raised has finalised
\* and cleaned up
C15_RunFinalizes ==
  (sim \in {"core", "engine"} /\ run.state \in {"returned", "raised"}) => run.finalized

\* some loop thread is executing _run_simulation_loop
LoopRunning == \E l \in LoopIds : IsAlive(l)

\* C16: a POST /simulation/start that arrives while no simulation is initialised or
\* while a simulation loop is running is answered with HTTP 400 and creates no loop
\* thread
C16_StartRefused ==
  [][(response'.req = "start" /\ (~simulation \/ LoopRunning)) =>
       (response'.code = 400 /\ loop' = loop)]_vars

\* C17: a loop that was running when stop_simulation was called begins no further
\* step
C17_StoppedLoopEnds ==
  [][\A l \in LoopIds :
       (loop[l].stopped /\ loop[l].pc # "step") => loop'[l].pc # "step"]_vars

\* C18: when a broadcast has returned, no socket whose send failed is in the live set,
\* and every socket whose send succeeded and whose peer has not left is in it
C18_BroadcastPrunes ==
  bcast.pc = "done" =>
    /\ bcast.disconnected_clients \cap websocket_connections = {}
    /\ \A s \in bcast.sent : client[s] = "open" => s \in websocket_connections

\* the position of the last use of key k in the history of uses
LastUse(k) == SetMax({i \in DOMAIN uses : uses[i] = k})

\* the cached key whose last use is the oldest
LruKey == CHOOSE k \in DOMAIN cache : \A j \in DOMAIN cache : LastUse(k) <= LastUse(j)

\* C19: size() never exceeds max_size, and a put of a new key into a full cache removes
\* exactly the least recently used key, a use being a put or a get that found the key
C19_LruEviction ==
  /\ [](Size <= max_size)
  /\ [][(cache_call'.op = "put" /\ ~cache_call'.hit /\ Size >= max_size) =>
          DOMAIN cache' = (DOMAIN cache \ {LruKey}) \cup {cache_call'.key}]_vars

\* a put of a new key into a full cache has left the first key ever used in the cache
\* and a key used after it is gone: a later use had protected the first key
C19_Witness ==
  /\ cache_call.op = "put"
  /\ ~cache_call.hit
  /\ Size = max_size
  /\ Len(uses) >= 4
  /\ uses[1] \in DOMAIN cache
  /\ uses[1] # cache_call.key
  /\ \E k \in Range(uses) : k \notin DOMAIN cache

\* C20: the validation cache of an agent never holds more than 100 entries
C20_ValidationCacheBounded == Len(validation_cache) <= CacheLimit

(***************************************************************************)
(* FileManager (utils/file_manager.py).  A file holds the bytes an         *)
(* encoding made of a text, written <<text, encoding>>, or the beginning   *)
(* of them after an interrupted write.  A call runs to its end without     *)
(* another call in between; one operation of a call at most fails for a    *)
(* reason outside the program (failed_at), the failures the program makes  *)
(* itself come from the model.                                             *)
(***************************************************************************)
MaxFileOps == 2

fileRest ==
  <<ledgerVars, simVars, db_locked, bridgeVars, socketVars, cacheVars, agentVars, storeVars, positionVars, pollVars, boundedVars>>

AsciiTexts == {"abc", "xyz"}
Texts == AsciiTexts \cup {"accented"}
Encodings == {"utf-8", "latin-1"}
Partial == <<"partial">>

\* f.write(content) on a file opened with encoding=encoding
Encode(text, encoding) == <<text, encoding>>

\* open(file_path, 'r', encoding='utf-8').read(): the text, or an error
Decode(bytes) ==
  IF bytes = Partial THEN "truncated"
  ELSE IF bytes[2] = "utf-8" \/ bytes[1] \in AsciiTexts THEN bytes[1]
  ELSE "UnicodeDecodeError"

Plain(name) == <<name, "">>
BackupPath(name) == <<name, ".backup">>
WrittenInPlace(name) == <<name, "">>
TempPath(name) == <<name, ".tmp">>

Exists(f, path) == f[path] # Absent
Unlink(f, path) == [f EXCEPT ![path] = Absent]
Copy2(f, from, to) == [f EXCEPT ![to] = f[from]]
\* Path.replace and shutil.move of a file: a rename that overwrites
Rename(f, from, to) == IF from = to THEN f ELSE [f EXCEPT ![to] = f[from], ![from] = Absent]

\* _validate_file_integrity(temp_path, content)
ValidateFileIntegrity(f, path, text) == Exists(f, path) /\ Decode(f[path]) = text

WriteFaults == {"none", "mkdir", "backup", "write", "replace"}

\* safe_write_file(file_path, content, backup, encoding): the files it leaves
\* and whether it raised
SafeWriteOutcome(f, name, text, backup, encoding, failed_at) ==
  LET file_path == Plain(name)
      backed == backup /\ Exists(f, file_path)
      backup_path == BackupPath(name)
      temp_path == TempPath(name)
      \* the old backup is removed, then the copy is made or fails
      f1 == IF ~backed THEN f
            ELSE IF failed_at = "backup" THEN Unlink(f, backup_path)
            ELSE Copy2(Unlink(f, backup_path), file_path, backup_path)
      f2 == IF failed_at = "write" THEN [f1 EXCEPT ![temp_path] = Partial]
            ELSE [f1 EXCEPT ![temp_path] = Encode(text, encoding)]
      failed == \/ failed_at \in {"write", "replace"}
                \/ ~ValidateFileIntegrity(f2, temp_path, text)
      \* except: the temporary file is removed and the backup copied back
      e1 == IF Exists(f2, temp_path) THEN Unlink(f2, temp_path) ELSE f2
      e2 == IF backed /\ Exists(e1, backup_path) THEN Copy2(e1, backup_path, file_path)
            ELSE e1
      \* success: the rename, and finally the backup is removed
      s1 == Rename(f2, temp_path, file_path)
      s2 == IF backed /\ Exists(s1, backup_path) THEN Unlink(s1, backup_path) ELSE s1
  IN  IF failed_at = "mkdir" THEN [fs |-> f, raised |-> TRUE]
      ELSE IF failed THEN [fs |-> e2, raised |-> TRUE]
      ELSE [fs |-> s2, raised |-> FALSE]

SafeWriteFile(name, text, backup, encoding, failed_at) ==
  /\ file_calls < MaxFileOps
  /\ LET out == SafeWriteOutcome(fs, name, text, backup, encoding, failed_at)
     IN  /\ fs' = out.fs
         /\ fcall' = [op |-> "safe_write_file", target |-> name, mappings |-> <<>>,
                      backup |-> backup, failed_at |-> failed_at, before |-> fs,
                      raised |-> out.raised]
  /\ file_calls' = file_calls + 1
  /\ UNCHANGED fileRest

RECURSIVE MoveLoop(_, _, _, _, _, _)
\* the loop of move_files_safely from mapping i on: the files, the backups and
\* the moves made when it ends, and whether a move failed
MoveLoop(f, file_mappings, i, failed_at, backups, moved_files) ==
  IF i > Len(file_mappings)
  THEN [fs |-> f, backups |-> backups, moved_files |-> moved_files, failed |-> FALSE]
  ELSE LET src_path == Plain(file_mappings[i][1])
           dst_path == Plain(file_mappings[i][2])
           backup_path == BackupPath(file_mappings[i][2])
           backed == Exists(f, dst_path)
           f1 == IF backed THEN Copy2(Unlink(f, backup_path), dst_path, backup_path) ELSE f
           b1 == IF backed THEN Append(backups, <<dst_path, backup_path>>) ELSE backups
       IN  IF failed_at = i \/ ~Exists(f1, src_path)
           THEN [fs |-> f1, backups |-> b1, moved_files |-> moved_files, failed |-> TRUE]
           ELSE MoveLoop(Rename(f1, src_path, dst_path), file_mappings, i + 1, failed_at,
                         b1, Append(moved_files, <<src_path, dst_path>>))

RECURSIVE RestoreMoved(_, _, _)
\* for src_path, dst_path in reversed(moved_files): the destination is removed
\* first, so the move back finds nothing to move and its error is logged
RestoreMoved(f, moved_files, i) ==
  IF i = 0 THEN f
  ELSE LET src_path == moved_files[i][1]
           dst_path == moved_files[i][2]
           g == IF Exists(f, dst_path) THEN Unlink(f, dst_path) ELSE f
           h == IF Exists(g, src_path) /\ Exists(g, dst_path)
                THEN Rename(g, dst_path, src_path) ELSE g
       IN  RestoreMoved(h, moved_files, i - 1)

RECURSIVE RestoreBackups(_, _, _)
\* for dst_path, backup_path in reversed(backups)
RestoreBackups(f, backups, i) ==
  IF i = 0 THEN f
  ELSE LET dst_path == backups[i][1]
           backup_path == backups[i][2]
           g == IF Exists(f, backup_path) THEN Rename(f, backup_path, dst_path) ELSE f
       IN  RestoreBackups(g, backups, i - 1)

\* move_files_safely(file_mappings)
MoveOutcome(f, file_mappings, failed_at) ==
  IF \E i \in 1 .. Len(file_mappings) : ~Exists(f, Plain(file_mappings[i][1]))
  THEN [fs |-> f, raised |-> TRUE, started |-> FALSE]
  ELSE LET done == MoveLoop(f, file_mappings, 1, failed_at, <<>>, <<>>)
           r1 == RestoreMoved(done.fs, done.moved_files, Len(done.moved_files))
           r2 == RestoreBackups(r1, done.backups, Len(done.backups))
       IN  IF done.failed THEN [fs |-> r2, raised |-> TRUE, started |-> TRUE]
           ELSE [fs |-> done.fs, raised |-> FALSE, started |-> TRUE]

Sources == {"s1", "s2"}
Destinations == {"d1", "d2"}
Mappings ==
  {<<m>> : m \in Sources \X Destinations}
    \cup {<<m, n>> : m \in Sources \X Destinations, n \in Sources \X Destinations}

MoveFilesSafely(file_mappings, failed_at) ==
  /\ file_calls < MaxFileOps
  /\ LET out == MoveOutcome(fs, file_mappings, failed_at)
     IN  /\ fs' = out.fs
         /\ fcall' = [op |-> "move_files_safely", target |-> "",
                      mappings |-> file_mappings, backup |-> FALSE,
                      failed_at |-> IF out.started THEN failed_at ELSE 0,
                      before |-> fs, raised |-> out.raised]
  /\ file_calls' = file_calls + 1
  /\ UNCHANGED fileRest

\* every named file holds a text a client wrote there, or is missing
FileInit ==
  /\ QuietLedgerAndSim
  /\ ComponentsFresh
  /\ BoundedFresh
  /\ PollFresh
  /\ fs \in {f \in [Paths -> {Absent, Encode("abc", "utf-8")}] :
               \A p \in Paths : p[2] # "" => f[p] = Absent}
  /\ fcall = NoFileCall
  /\ file_calls = 0
  /\ StoreFresh
  /\ PositionFresh

FileNext ==
  \/ \E name \in Destinations, text \in {"xyz", "accented"}, backup \in BOOLEAN,
        encoding \in Encodings, failed_at \in WriteFaults :
       SafeWriteFile(name, text, backup, encoding, failed_at)
  \/ \E file_mappings \in Mappings, failed_at \in 0 .. 2 :
       MoveFilesSafely(file_mappings, failed_at)

FileSpec == FileInit /\ [][FileNext]_vars

C22_MoveRollsBack ==
  (fcall.op = "move_files_safely" /\ fcall.raised)
    => \A name \in FileNames : fs[Plain(name)] = fcall.before[Plain(name)]

(***************************************************************************)
(* The database file a ledger works on.  A DatabaseLedger keeps db_file,   *)
(* and reaches the database through a connection kept per thread           *)
(* (database.py, ledger_manager.py) or through the global pool             *)
(* (core/database.py).  The caches of the ledgers are left out: the reads  *)
(* of this model are reads that miss the cache.                            *)
(***************************************************************************)
MaxStoreOps == 5

storeRest ==
  <<ledgerVars, simVars, db_locked, bridgeVars, socketVars, cacheVars, agentVars, fileVars, positionVars, pollVars, boundedVars>>

StoreOps == Cardinality(ledgers) + Len(tables["P1"]) + Len(tables["P2"])
              + Len(tables[ConfigPath])

\* get_db_connection(db_file) / ConnectionPool.get_connection(): the file the
\* connection of thread t is open on
ConnectedFile(t, db_file) ==
  IF impl = "core" THEN ConfigPath
  ELSE IF thread_connection[t] = "none" THEN db_file
  ELSE thread_connection[t]

\* DatabaseLedger(db_file=db_file), constructed in thread t
NewLedger(t, db_file) ==
  /\ db_file \notin ledgers
  /\ ledgers' = ledgers \cup {db_file}
  /\ IF impl = "manager"
     THEN UNCHANGED <<schemas, thread_connection>>
     ELSE /\ schemas' = schemas \cup {ConnectedFile(t, db_file)}
          /\ thread_connection' = [thread_connection EXCEPT ![t] = ConnectedFile(t, db_file)]
  /\ store_call' = [NoStoreCall EXCEPT !.op = "new", !.thread = t, !.db_file = db_file]
  /\ UNCHANGED <<tables, initialized, appended, storeRest>>

\* _ensure_db_initialized() of ledger_manager.py; the other two have made
\* their schema in __init__
SchemasAfterInit(t, db_file) ==
  IF impl = "manager" /\ db_file \notin initialized
  THEN schemas \cup {ConnectedFile(t, db_file)}
  ELSE schemas

\* ledger.append_entry(entry) in thread t, on the ledger of db_file
StoreAppend(t, db_file) ==
  /\ db_file \in ledgers
  /\ StoreOps < MaxStoreOps
  /\ LET file == ConnectedFile(t, db_file)
         ok == file \in SchemasAfterInit(t, db_file)
     IN  /\ schemas' = SchemasAfterInit(t, db_file)
         /\ thread_connection' = [thread_connection EXCEPT ![t] = file]
         /\ tables' = IF ok THEN [tables EXCEPT ![file] = Append(@, db_file)] ELSE tables
         /\ appended' = IF ok THEN [appended EXCEPT ![db_file] = @ + 1] ELSE appended
         /\ store_call' = [NoStoreCall EXCEPT !.op = "append", !.thread = t,
                                               !.db_file = db_file, !.raised = ~ok]
  /\ initialized' = IF impl = "manager" THEN initialized \cup {db_file} ELSE initialized
  /\ UNCHANGED <<ledgers, storeRest>>

\* ledger.read_ledger() in thread t, on the ledger of db_file
StoreRead(t, db_file) ==
  /\ db_file \in ledgers
  /\ LET file == ConnectedFile(t, db_file)
         ok == file \in SchemasAfterInit(t, db_file)
     IN  /\ schemas' = SchemasAfterInit(t, db_file)
         /\ thread_connection' = [thread_connection EXCEPT ![t] = file]
         /\ store_call' = [NoStoreCall EXCEPT !.op = "read", !.thread = t,
                                               !.db_file = db_file, !.raised = ~ok,
                                               !.rows = IF ok THEN tables[file] ELSE <<>>]
  /\ initialized' = IF impl = "manager" THEN initialized \cup {db_file} ELSE initialized
  /\ UNCHANGED <<tables, ledgers, appended, storeRest>>

\* close_db_connection() / close_all_connections() in thread t
CloseDbConnection(t) ==
  /\ thread_connection[t] # "none"
  /\ thread_connection' = [thread_connection EXCEPT ![t] = "none"]
  /\ store_call' = [NoStoreCall EXCEPT !.op = "close", !.thread = t]
  /\ UNCHANGED <<tables, schemas, ledgers, initialized, appended, storeRest>>

StoreInit ==
  /\ impl \in Impls
  /\ inst = [t \in Threads |-> 1]
  /\ LedgerFresh
  /\ sim = "core" /\ backend = "sequential" /\ stop_on_error = FALSE
  /\ SimFresh
  /\ ComponentsFresh
  /\ BoundedFresh
  /\ PollFresh
  /\ FileFresh
  /\ StoreFresh
  /\ PositionFresh

StoreNext ==
  \/ \E t \in Threads, db_file \in StoreFiles : NewLedger(t, db_file)
  \/ \E t \in Threads, db_file \in StoreFiles : StoreAppend(t, db_file)
  \/ \E t \in Threads, db_file \in StoreFiles : StoreRead(t, db_file)
  \/ \E t \in Threads : CloseDbConnection(t)

StoreSpec == StoreInit /\ [][StoreNext]_vars

\* C23: a ledger constructed on a new file P reads back exactly the entries
\* appended through the ledgers on P, and none appended through a ledger on
\* another file
C23_LedgersApart ==
  (store_call.op = "read" /\ ~store_call.raised)
    => store_call.rows = [i \in 1 .. appended[store_call.db_file] |-> store_call.db_file]

(***************************************************************************)
(* PositionMapper (backend/data_transformers.py).  Coordinates are counted *)
(* in tenths of a unit.  The random numbers and the sine terms of the code *)
(* are inputs, drawn from a few values of their ranges; the scaling of a   *)
(* position back to the sphere rounds each coordinate toward the origin.   *)
(***************************************************************************)
MaxUpdates == 3
MaxDistance == 150

positionRest ==
  <<ledgerVars, simVars, db_locked, bridgeVars, socketVars, cacheVars, agentVars,
    fileVars, storeVars, pollVars, boundedVars>>

MappedAgents == {1, 2}

\* initialize_spherical_layout: points of the sphere of radius 10, with noise
SpherePoints == {<<100, 0, 0>>, <<0, -104, 7>>, <<55, 60, -58>>}
\* Vector3D(rng.uniform(-10, 10), rng.uniform(-10, 10), rng.uniform(-10, 10))
UniformPoints == {<<0, 0, 0>>, <<100, 0, 0>>, <<-100, 100, 0>>, <<100, 100, 100>>}
\* (sin, cos, sin) * movement_factor, movement_factor = (1.0 - trust_score) * 0.1
Movements == {<<0, 0, 0>>, <<1, 1, 1>>, <<-1, 0, 1>>}

DistanceSquared(v) == v[1] * v[1] + v[2] * v[2] + v[3] * v[3]

\* the least whole number that is no less than the square root of n
CeilSqrt(n) == CHOOSE r \in 0 .. 2 * MaxDistance : r * r >= n /\ (r = 0 \/ (r - 1) * (r - 1) < n)

\* c * MaxDistance / d, rounded toward zero
Scaled(c, d) == IF c >= 0 THEN (c * MaxDistance) \div d ELSE 0 - ((0 - c) * MaxDistance) \div d

\* if distance_from_origin > max_distance: new_pos = new_pos * scale
KeepWithinBounds(v) ==
  IF DistanceSquared(v) > MaxDistance * MaxDistance
  THEN LET d == CeilSqrt(DistanceSquared(v))
       IN  <<Scaled(v[1], d), Scaled(v[2], d), Scaled(v[3], d)>>
  ELSE v

Moved(v, m) == <<v[1] + m[1], v[2] + m[2], v[3] + m[3]>>

\* update_positions_from_simulation(agents)
UpdatePositionsFromSimulation(agents, sphere, uniform, movement) ==
  /\ position_updates < MaxUpdates
  /\ position_updates' = position_updates + 1
  /\ agent_positions' =
       IF DOMAIN agent_positions = {}
       THEN [a \in agents |-> sphere[a]]
       ELSE [a \in DOMAIN agent_positions \cup agents |->
               IF a \notin agents THEN agent_positions[a]
               ELSE IF a \notin DOMAIN agent_positions THEN uniform[a]
               ELSE KeepWithinBounds(Moved(agent_positions[a], movement[a]))]
  /\ UNCHANGED positionRest

PositionInit ==
  /\ QuietLedgerAndSim
  /\ ComponentsFresh
  /\ BoundedFresh
  /\ PollFresh
  /\ FileFresh
  /\ StoreFresh
  /\ PositionFresh

PositionNext ==
  \E agents \in (SUBSET MappedAgents) \ {{}} :
    \E sphere \in [agents -> SpherePoints], uniform \in [agents -> UniformPoints],
       movement \in [agents -> Movements] :
      UpdatePositionsFromSimulation(agents, sphere, uniform, movement)

PositionSpec == PositionInit /\ [][PositionNext]_vars

\* C24: after any number of update_positions_from_simulation calls no agent
\* position is farther than 15 units from the origin
C24_PositionsBounded ==
  \A a \in DOMAIN agent_positions :
    DistanceSquared(agent_positions[a]) <= MaxDistance * MaxDistance

(***************************************************************************)
(* poll_and_validate beside the ledger calls of another agent.  Thread 1   *)
(* is the polling agent: its get_new_entries and read_ledger calls are the *)
(* ledger calls of the model above, made on the ledger object it shares    *)
(* with thread 2, the other agent, whose ledger calls are free.  What the  *)
(* polling agent does with the value a ledger call returned is one step,   *)
(* taken before any other thread moves.  The database holds one entry of   *)
(* another node when the behaviour begins.                                 *)
(***************************************************************************)
\* items passed to the bounded list in one behaviour
MaxAdded == 5
MaxPolls == 2

Poller == 1
PollerNode == "Node_2"

pollRest ==
  <<ledgerVars, db_locked, bridgeVars, socketVars, cacheVars, agentVars, fileVars,
    storeVars, positionVars, boundedVars>>

simExceptLastSeen ==
  <<sim, backend, stop_on_error, step_count, run, phase, mode, acted, polled,
    all_validations, updCalls, confirmed, verdict, poll_raised, ran_before, repeated>>

\* the value get_new_entries has just returned to the polling agent is not used yet
KeepPending ==
  poll_stage = "query" /\ pc[Poller] = "idle" /\ last.thread = Poller /\ last.op = "new"

\* the value read_ledger has just returned to the polling agent is not used yet
FinishPending ==
  poll_stage = "lookup" /\ pc[Poller] = "idle" /\ last.thread = Poller /\ last.op = "read"

\* agent.poll_and_validate() is called
PollCall ==
  /\ poll_stage = "returned"
  /\ poll_calls < MaxPolls
  /\ ~(last.thread = Poller /\ last.op = "new")
  /\ poll_stage' = "query"
  /\ poll_calls' = poll_calls + 1
  /\ UNCHANGED <<new_entries, query_log, validated_ids, between_ids, simVars, pollRest>>

\* new_entries = self.ledger.get_new_entries(self.last_seen_id): the call begins
PollerQuery ==
  /\ poll_stage = "query"
  /\ ~KeepPending
  /\ \/ RootNewStart(Poller, last_seen_id[Poller])
     \/ CoreNewStart(Poller, last_seen_id[Poller])
     \/ ManagerNewStart(Poller, last_seen_id[Poller])

\* the ids of the entries of other nodes: those validate_signature is called on
ForeignIds(entries) ==
  {entries[k].id : k \in {j \in DOMAIN entries : entries[j].node_id # PollerNode}}

\* the for loop over new_entries; without new entries the call returns here
PollKeep ==
  /\ KeepPending
  /\ new_entries' = last.rows
  /\ validated_ids' = validated_ids \cup ForeignIds(last.rows)
  /\ query_log' = Len(appendLog)
  /\ poll_stage' = IF last.kind = "rows" /\ last.rows # <<>> THEN "lookup" ELSE "returned"
  /\ UNCHANGED <<poll_calls, between_ids, simVars, pollRest>>

\* self.ledger.read_ledger(): the call begins
PollerLookup ==
  /\ poll_stage = "lookup"
  /\ ~FinishPending
  /\ \/ RootReadStart(Poller)
     \/ \E withinTtl \in BOOLEAN : CoreReadStart(Poller, withinTtl)
     \/ ManagerReadStart(Poller)

\* the steps of the polling agent inside its ledger call
PollerInside ==
  \/ RootNewBody(Poller) \/ CoreNewBody(Poller) \/ ManagerNewBody(Poller)
  \/ RootReadCached(Poller) \/ RootReadBody(Poller)
  \/ CoreReadCached(Poller) \/ CoreReadBody(Poller)
  \/ ManagerReadBody(Poller)

\* self.last_seen_id = max(e.get('id', 0) for e in all_entries): only core/agents.py
\* tests 'if all_entries:' and catches what read_ledger or max() raises; in the
\* other two the exception leaves poll_and_validate before the assignment
LastSeenFrom(outcome) ==
  IF outcome.kind = "rows" /\ outcome.rows # <<>>
  THEN SetMax({outcome.rows[k].id : k \in DOMAIN outcome.rows})
  ELSE last_seen_id[Poller]

PollFinish ==
  /\ FinishPending
  /\ last_seen_id' = [last_seen_id EXCEPT ![Poller] = LastSeenFrom(last)]
  /\ between_ids' =
       between_ids \cup {appendLog[k].id : k \in (query_log + 1) .. last.log}
  /\ poll_stage' = "returned"
  /\ UNCHANGED <<new_entries, poll_calls, query_log, validated_ids,
                 simExceptLastSeen, pollRest>>

\* a ledger call of the other agent
OtherAgentStep == ~KeepPending /\ ~FinishPending /\ LedgerStep(2)

\* an entry another node appended before the behaviour begins
EarlierEntry == [timestamp |-> 1, node_id |-> "Node_1", features |-> <<500>>, confidence |-> 5]

PollInit ==
  /\ impl \in Impls
  /\ inst = [t \in Threads |-> 1]
  /\ ledger = <<NewRow(0, EarlierEntry)>>
  /\ sqlite_sequence = AutoincrementId(0)
  /\ schema = TRUE
  /\ lock = [i \in Instances |-> 0]
  /\ cached_ledger = [i \in Instances |-> NoCache]
  /\ db_initialized = [i \in Instances |-> impl # "manager"]
  /\ pc = [t \in Threads |-> "idle"]
  /\ call = [t \in Threads |-> NoCall]
  /\ last = NoLast
  /\ appendLog = <<>>
  /\ version = 0
  /\ instVer = [i \in Instances |-> 0]
  /\ cleanups = 0
  /\ sim = "core" /\ backend = "sequential" /\ stop_on_error = FALSE
  /\ SimFresh
  /\ ComponentsFresh
  /\ BoundedFresh
  /\ FileFresh /\ StoreFresh /\ PositionFresh
  /\ PollFresh

PollNext ==
  \/ PollCall
  \/ PollerQuery
  \/ PollKeep
  \/ PollerLookup
  \/ PollerInside
  \/ PollFinish
  \/ OtherAgentStep

PollSpec == PollInit /\ [][PollNext]_vars

\* C25: an entry another agent appended between the agent's query for new
\* entries and its lookup of the greatest id is never validated by the agent
C25_BetweenNeverValidated == between_ids \cap validated_ids = {}

\* C26: the retry of append_entry after a "database is locked" error never waits for the
\* per-instance lock of its own ledger: the thread that is about to enter the nested
\* append_entry call does not hold that lock itself
C26_RetryNeverSelfBlocks ==
  \A t \in Threads : pc[t] = "append_lock" => lock[inst[t]] # t

\* C27: in each step() of the simulation every agent's step() is invoked exactly once
\* in the act phase and every agent's poll_and_validate() exactly once in the poll
\* phase, before resolve_consensus: no task is invoked a second time, and
\* resolve_consensus finds every task of both phases completed
C27_EachAgentOnce ==
  /\ ~repeated
  /\ (phase = "resolve" /\ run.state = "running") => WaitAll(acted) /\ WaitAll(polled)

\* the step() that run() is executing ends by raising: from the submission of phase 1
\* or out of the act phase (the other phases end in RunAfterStep)
StepFails ==
  /\ run.state = "running"
  /\ phase \in {"idle", "act"}
  /\ phase' = "idle"
  /\ run' # run

\* C28: when a step of run(steps) raises and stop_on_error is not set, run() returns
\* without raising and executes none of the remaining steps, and step_count has grown
\* by the number of steps completed before the failing one
C28_FailedStepEndsRun ==
  [][(StepFails /\ ~stop_on_error) =>
       /\ run'.state = "returned"
       /\ run'.left = 0
       /\ step_count' = run.from + (run.steps - run.left)]_vars

\* the loop threads that are executing simulation steps: inside the while loop of
\* _run_simulation_loop, at simulation.step() or at the rest of the loop body
SteppingLoops == {l \in LoopIds : loop[l].pc \in {"step", "broadcast"}}

\* C29: whatever start and stop requests the bridge has served, at most one background
\* loop thread is executing simulation steps
C29_OneSteppingLoop == Cardinality(SteppingLoops) <= 1

(***************************************************************************)
(* BoundedList of agent_manager.py, the type of an agent's recent_data.    *)
(***************************************************************************)
boundedRest ==
  <<ledgerVars, simVars, db_locked, bridgeVars, socketVars, cacheVars, agentVars,
    fileVars, storeVars, positionVars, pollVars>>

\* capacities of the lists of a behaviour, in place of max_recent_data
MaxSizes == {2, 3}
\* traffic values
Items == {10, 500}
\* arguments of extend()
ItemLists == {<<i>> : i \in Items} \cup {<<i, j>> : i \in Items, j \in {10}}

\* deque(maxlen=max_size).append(item): a full deque drops its oldest item
DequeAppend(d, item, maxlen) ==
  IF Len(d) = maxlen THEN Append(Tail(d), item) ELSE Append(d, item)

\* deque.extend(items): the items are appended one by one
RECURSIVE DequeExtend(_, _, _)
DequeExtend(d, items, maxlen) ==
  IF items = <<>>
    THEN d
    ELSE DequeExtend(DequeAppend(d, Head(items), maxlen), Tail(items), maxlen)

\* the method the calling thread is executing
Top == frames[Len(frames)]

\* BoundedList.append(item), with the lock taken and released
BoundedAppend(item) ==
  /\ frames = <<>>
  /\ ~list_lock
  /\ added < MaxAdded
  /\ data' = DequeAppend(data, item, list_max_size)
  /\ total_appended' = total_appended + 1
  /\ added' = added + 1
  /\ UNCHANGED <<list_max_size, list_lock, frames, waiting, stats, boundedRest>>

\* BoundedList.extend(items), with the lock taken and released; the while loop finds
\* nothing to remove, the deque having a maxlen
BoundedExtend(items) ==
  /\ frames = <<>>
  /\ ~list_lock
  /\ added + Len(items) <= MaxAdded
  /\ data' = DequeExtend(data, items, list_max_size)
  /\ added' = added + Len(items)
  /\ UNCHANGED <<list_max_size, total_appended, list_lock, frames, waiting, stats,
                 boundedRest>>

\* the thread calls get_stats() or get_memory_usage(); both begin with the lock
BoundedCall(method) ==
  /\ frames = <<>>
  /\ frames' = <<method>>
  /\ waiting' = TRUE
  /\ stats' = NoStats
  /\ UNCHANGED <<data, list_max_size, total_appended, list_lock, added, boundedRest>>

\* "with self._lock:" of the innermost method: threading.Lock.acquire(), which blocks
\* while the lock is held, whoever holds it
EnterLock ==
  /\ frames # <<>>
  /\ waiting
  /\ ~list_lock
  /\ list_lock' = TRUE
  /\ waiting' = FALSE
  /\ UNCHANGED <<data, list_max_size, total_appended, frames, stats, added, boundedRest>>

\* get_stats() inside its lock: the dictionary display evaluates current_size, max_size
\* and total_appended, then calls self.get_memory_usage()
GetStats ==
  /\ frames = <<"get_stats">>
  /\ ~waiting
  /\ stats' = [current_size |-> Len(data), max_size |-> list_max_size,
               total_appended |-> total_appended, evaluated |-> TRUE]
  /\ frames' = <<"get_stats", "get_memory_usage">>
  /\ waiting' = TRUE
  /\ UNCHANGED <<data, list_max_size, total_appended, list_lock, added, boundedRest>>

\* get_memory_usage() inside its lock returns the estimate and releases the lock; the
\* get_stats() that called it then returns its dictionary at once
GetMemoryUsage ==
  /\ frames # <<>>
  /\ Top = "get_memory_usage"
  /\ ~waiting
  /\ list_lock' = FALSE
  /\ frames' = <<>>
  /\ UNCHANGED <<data, list_max_size, total_appended, waiting, stats, added, boundedRest>>

BoundedInit ==
  /\ QuietLedgerAndSim
  /\ ComponentsFresh
  /\ FileFresh
  /\ StoreFresh
  /\ PositionFresh
  /\ PollFresh
  /\ data = <<>>
  /\ list_max_size \in MaxSizes
  /\ total_appended = 0
  /\ list_lock = FALSE
  /\ frames = <<>>
  /\ waiting = FALSE
  /\ stats = NoStats
  /\ added = 0

BoundedNext ==
  \/ \E item \in Items : BoundedAppend(item)
  \/ \E items \in ItemLists : BoundedExtend(items)
  \/ \E method \in {"get_stats", "get_memory_usage"} : BoundedCall(method)
  \/ EnterLock
  \/ GetStats
  \/ GetMemoryUsage

BoundedSpec == BoundedInit /\ [][BoundedNext]_vars

\* the thread waits for a lock that its own get_stats() holds
SelfBlocked == frames = <<"get_stats", "get_memory_usage">> /\ waiting /\ list_lock

\* C30: after any appends and extends, get_stats() returns: it is never stopped inside
\* the call, and the current_size it reports is at most the capacity and the
\* total_appended it reports at least the number of items added
C30_StatsReturned ==
  /\ ~SelfBlocked
  /\ stats.evaluated =>
       /\ stats.current_size <= list_max_size
       /\ stats.total_appended >= added

====
